---- MODULE Spec2Model ----
(***************************************************************************)
(* State-machine model of the evmone host layer of erigon                  *)
(* (core/evmone-go/host_impl.go): the capabilities HostImpl offers to the  *)
(* interpreter (SetStorage, Selfdestruct, Call, AccessAccount, ...), the    *)
(* IntraBlockState they drive and the interpreter that re-enters the host.  *)
(***************************************************************************)
EXTENDS Integers, Sequences, FiniteSets, TLC

(***************************************************************************)
(* Bounds of the model                                                     *)
(***************************************************************************)
\* SetStorage and Selfdestruct calls made in one run
MaxSteps == 2
\* frames that may be open above the transaction's frame; a frame sends at
\* most one message
MaxDepth == 2
\* the same, in the specifications that do not study nesting
ShallowDepth == 1
\* width of the nonce type in the model (uint64 in the code)
NonceBits == 2
\* largest value written to a storage slot
MaxSlotValue == 2
\* largest block number asked of GetBlockHash
MaxBlockNumber == 2

(***************************************************************************)
(* Program constants                                                       *)
(***************************************************************************)
\* params.MaxCodeSize
MaxCodeSize == 24576
\* params.CreateDataGas
CreateDataGas == 200

NonceModulus == 2 ^ NonceBits
MaxNonce == NonceModulus - 1
Nonces == 0 .. MaxNonce

(***************************************************************************)
(* Message kinds, revisions, errors                                        *)
(***************************************************************************)
MessageCallKinds == {"Call", "CallCode", "DelegateCall", "StaticCall"}
CreationKinds == {"Create", "Create2", "EofCreate"}
CallKind == MessageCallKinds \cup CreationKinds

\* Revision: the numbering used by the switch of NewEvmOneHost
Frontier == 0
Homestead == 1
SpuriousDragon == 3
Petersburg == 6
Istanbul == 7
Berlin == 8
London == 9
Shanghai == 11
Cancun == 12
Prague == 13

ErrNil == "nil"
ErrInsufficientBalance == "ErrInsufficientBalance"
ErrNonceUintOverflow == "ErrNonceUintOverflow"
ErrContractAddressCollision == "ErrContractAddressCollision"
ErrMaxCodeSizeExceeded == "ErrMaxCodeSizeExceeded"
ErrInvalidCode == "ErrInvalidCode"
ErrCodeStoreOutOfGas == "ErrCodeStoreOutOfGas"
ErrExecutionReverted == "ErrExecutionReverted"
\* any other fault of the interpreter or of a precompile (out of gas, ...)
ErrFault == "ErrFault"

(***************************************************************************)
(* Byte strings: code, init code and output are known by their length and  *)
(* their first byte, which is all the host reads of them                   *)
(***************************************************************************)
Bytes(n, b) == [len |-> n, first |-> b]
EmptyBytes == Bytes(0, 0)
ByteEF == 239
Byte60 == 96
\* outputs an interpreter run may hand back
Outputs == {EmptyBytes, Bytes(1, Byte60), Bytes(1, ByteEF),
            Bytes(MaxCodeSize + 1, Byte60), Bytes(MaxCodeSize + 1, ByteEF)}
\* init codes handed to a creation
InitCodes == <<EmptyBytes, Bytes(2, Byte60)>>
\* code of the contracts deployed before the transaction
ContractCode == Bytes(3, Byte60)

(***************************************************************************)
(* Addresses.  0 is common.Address{}; 1..5 are the accounts of the         *)
(* pre-state; the rest are the addresses crypto.CreateAddress and          *)
(* crypto.CreateAddress2 derive, one per input (the hash is injective).    *)
(***************************************************************************)
ZeroAddress == 0
\* the address evm.Precompile answers for
PrecompileAddr == 1
\* the contract whose code the transaction's frame executes
SelfAddr == 2
\* another contract with code
ContractAddr == 3
\* an address that may hold no account
FreshAddr == 4
\* the account that sent the transaction's message to SelfAddr
CallerAddr == 5
Plain == {PrecompileAddr, SelfAddr, ContractAddr, FreshAddr, CallerAddr}
\* accounts whose code runs and may therefore send a creation
Creators == {SelfAddr}
Salts == {0, 1}

CreateAddress(sender, nonce) == 100 + sender * NonceModulus + nonce

InitCodeIndex(code) == CHOOSE i \in 1 .. Len(InitCodes) : InitCodes[i] = code
\* crypto.Keccak256Hash of a byte string
Keccak256Hash(bytes) == [keccak |-> TRUE, of |-> bytes]
ZeroHash == [keccak |-> FALSE, of |-> EmptyBytes]
emptyCodeHash == Keccak256Hash(EmptyBytes)
CreateAddress2(sender, salt, inithash) ==
    1000 + (sender * 2 + salt) * Len(InitCodes) + InitCodeIndex(inithash.of)

Derived == {CreateAddress(s, n) : s \in Creators, n \in Nonces}
           \cup {CreateAddress2(s, t, Keccak256Hash(InitCodes[i])) :
                   s \in Creators, t \in Salts, i \in 1 .. Len(InitCodes)}
Address == {ZeroAddress} \cup Plain \cup Derived

Keys == {0, 1}
SlotValues == 0 .. MaxSlotValue

\* the host of one transaction
VARIABLES host, ibs, committed, journal, accessList, stack, result, last, steps
\* cmd/commitment-prefix: the two channels of processCommitmentFile, the
\* goroutine that extracts and the loop that consumes
VARIABLES stats, errch, extractor, consumer
\* polygon/bridge: the atomic fields of the Bridge, the context, the goroutine
\* of Run and the caller of ProcessNewBlocks
VARIABLES bridge, ctx, run, engine
\* turbo/builder: the LatestBlockBuiltStore, the goroutines calling it and
\* the calls that have completed
VARIABLES store, threads, history

hostVars == <<host, ibs, committed, journal, accessList, stack, result, last, steps>>
commitmentVars == <<stats, errch, extractor, consumer>>
bridgeVars == <<bridge, ctx, run, engine>>
builderVars == <<store, threads, history>>
\* what each program leaves alone: the other programs of the repository
otherVars == <<commitmentVars, bridgeVars, builderVars>>
notCommitmentVars == <<hostVars, bridgeVars, builderVars>>
notBridgeVars == <<hostVars, commitmentVars, builderVars>>
notBuilderVars == <<hostVars, commitmentVars, bridgeVars>>
vars == <<hostVars, otherVars>>

(***************************************************************************)
(* cmd/commitment-prefix: processCommitmentFile and the goroutine it       *)
(* starts to run extractKVPairFromCompressed                               *)
(***************************************************************************)
MaxPairs == 2
StatsCapacity == 8

ErrDecompressor == "failed to create decompressor"
ErrCompression == "invalid file compression"
ErrInvalidPair == "invalid key/value pair during decompression"

\* a key/value pair of the file: a key shorter than the depth asked for, the
\* root branch, or another branch
PairKinds == {"short", "root", "branch"}
RECURSIVE SeqsUpTo(_, _)
SeqsUpTo(S, n) ==
    IF n = 0 THEN {<<>>}
    ELSE SeqsUpTo(S, n - 1)
         \cup {Append(q, x) : q \in {r \in SeqsUpTo(S, n - 1) : Len(r) = n - 1}, x \in S}

\* a commitment file and the flags it is read with: whether the decompressor
\* opens it, whether the compression flag parses, its pairs, and whether a
\* last key stands without a value
Files ==
    [opens : BOOLEAN, compression : BOOLEAN, pairs : SeqsUpTo(PairKinds, MaxPairs),
     dangling : BOOLEAN]

\* commitment.DecodeBranchAndCollectStat, by what the consumer reads of it
BranchStat(kind) == [IsRoot |-> kind = "root"]

\* newOverallStat
NewOverallStat == [rootsCount |-> 0, branches |-> 0]

\* before processCommitmentFile is called
NoCommitment ==
    /\ stats = [queue |-> <<>>, closed |-> FALSE]
    /\ errch = [closed |-> FALSE]
    /\ extractor = [pc |-> "idle"]
    /\ consumer = [pc |-> "idle"]

\* processCommitmentFile has made its channels and started the goroutine
StartedOn(file) ==
    /\ stats = [queue |-> <<>>, closed |-> FALSE]
    /\ errch = [closed |-> FALSE]
    /\ extractor = [pc |-> "open", file |-> file, rest |-> file.pairs, err |-> ErrNil]
    /\ consumer = [pc |-> "range", totals |-> NewOverallStat, ret |-> "none",
                   err |-> ErrNil]

\* extractKVPairFromCompressed up to its loop: a decompressor that cannot be
\* opened, or a compression flag that does not parse, returns the error, and
\* the deferred close(keysSink) runs
ExtractOpen ==
    /\ extractor.pc = "open"
    /\ IF ~extractor.file.opens \/ ~extractor.file.compression
       THEN /\ extractor' = [extractor EXCEPT
                               !.pc = "report",
                               !.err = IF ~extractor.file.opens THEN ErrDecompressor
                                       ELSE ErrCompression]
            /\ stats' = [stats EXCEPT !.closed = TRUE]
       ELSE /\ extractor' = [extractor EXCEPT !.pc = "loop"]
            /\ stats' = stats
    /\ UNCHANGED <<errch, consumer>>
    /\ UNCHANGED notCommitmentVars

\* the loop passes over a pair whose key is shorter than the depth
ExtractSkip ==
    /\ extractor.pc = "loop"
    /\ extractor.rest # <<>>
    /\ Head(extractor.rest) = "short"
    /\ extractor' = [extractor EXCEPT !.rest = Tail(@)]
    /\ UNCHANGED <<stats, errch, consumer>>
    /\ UNCHANGED notCommitmentVars

\* keysSink <- *stat: the send waits while the channel is full
ExtractSend ==
    /\ extractor.pc = "loop"
    /\ extractor.rest # <<>>
    /\ Head(extractor.rest) # "short"
    /\ Len(stats.queue) < StatsCapacity
    /\ stats' = [stats EXCEPT !.queue = Append(@, BranchStat(Head(extractor.rest)))]
    /\ extractor' = [extractor EXCEPT !.rest = Tail(@)]
    /\ UNCHANGED <<errch, consumer>>
    /\ UNCHANGED notCommitmentVars

\* the loop ends: with an error for a key without a value, with nil at the
\* end of the file; the deferred close(keysSink) runs
ExtractReturn ==
    /\ extractor.pc = "loop"
    /\ extractor.rest = <<>>
    /\ extractor' = [extractor EXCEPT
                       !.pc = "report",
                       !.err = IF extractor.file.dangling THEN ErrInvalidPair ELSE ErrNil]
    /\ stats' = [stats EXCEPT !.closed = TRUE]
    /\ UNCHANGED <<errch, consumer>>
    /\ UNCHANGED notCommitmentVars

\* the goroutine after extractKVPairFromCompressed has returned: with an
\* error it comes to errch <- err and waits there for a receiver
ExtractorOffersError ==
    /\ extractor.pc = "report"
    /\ extractor' = [extractor EXCEPT
                       !.pc = IF extractor.err # ErrNil THEN "sending" ELSE "close"]
    /\ UNCHANGED <<stats, errch, consumer>>
    /\ UNCHANGED notCommitmentVars

\* close(errch)
ExtractorCloses ==
    /\ extractor.pc = "close"
    /\ errch' = [errch EXCEPT !.closed = TRUE]
    /\ extractor' = [extractor EXCEPT !.pc = "done"]
    /\ UNCHANGED <<stats, consumer>>
    /\ UNCHANGED notCommitmentVars

\* the totals after one statistic
Collect(totals, s) ==
    IF s.IsRoot THEN [totals EXCEPT !.rootsCount = @ + 1]
    ELSE [totals EXCEPT !.branches = @ + 1]

\* for s := range stats: the body for a statistic received, the end of the
\* loop when the channel is closed and empty
ConsumerRanges ==
    /\ consumer.pc = "range"
    /\ IF stats.queue # <<>>
       THEN /\ consumer' = [consumer EXCEPT !.totals = Collect(@, Head(stats.queue))]
            /\ stats' = [stats EXCEPT !.queue = Tail(@)]
       ELSE /\ stats.closed
            /\ consumer' = [consumer EXCEPT !.pc = "select"]
            /\ stats' = stats
    /\ UNCHANGED <<errch, extractor>>
    /\ UNCHANGED notCommitmentVars

\* a sender waits in errch: the goroutine has come to errch <- err
ErrorOffered == extractor.pc = "sending"

\* the select with a default: it receives the error of a goroutine that
\* waits in its send, receives nil from the closed channel, and otherwise
\* takes the default; then processCommitmentFile returns
ConsumerSelects ==
    /\ consumer.pc = "select"
    /\ IF ErrorOffered
       THEN /\ consumer' = [consumer EXCEPT !.pc = "returned", !.ret = "nil",
                                            !.err = extractor.err]
            /\ extractor' = [extractor EXCEPT !.pc = "close"]
       ELSE /\ consumer' = [consumer EXCEPT !.pc = "returned", !.ret = "totals",
                                            !.err = ErrNil]
            /\ extractor' = extractor
    /\ UNCHANGED <<stats, errch>>
    /\ UNCHANGED notCommitmentVars

(***************************************************************************)
(* polygon/bridge: Bridge.Run, Bridge.ProcessNewBlocks, Bridge.Synchronize *)
(***************************************************************************)
MaxBridgeBlock == 4
MaxEventID == 1
MaxCalls == 2

\* borConfig.CalculateSprintLength
SprintLength == 2
ErrStore == "store error"
ErrFetch == "fetch error"
ErrCanceled == "context canceled"

BlockNumbers == 1 .. MaxBridgeBlock
EventIDs == 0 .. MaxEventID
\* the block lists handed to ProcessNewBlocks: none, or blocks a .. b
BlockLists ==
    {<<>>} \cup {[i \in 1 .. (b - a + 1) |-> a + i - 1] :
                   a \in BlockNumbers, b \in BlockNumbers}

isSprintStart(headerNum) == ~(headerNum % SprintLength # 0 \/ headerNum = 0)

\* NewBridge: the atomic fields are zero
NewBridge == [ready |-> FALSE, lastProcessedBlockNumber |-> 0,
              lastProcessedEventID |-> 0]

\* before a Bridge is made
NoBridge ==
    /\ bridge = NewBridge
    /\ ctx = [done |-> FALSE]
    /\ run = [pc |-> "idle", err |-> ErrNil]
    /\ engine = [pc |-> "idle", blocks |-> <<>>, blockNum |-> 0, err |-> ErrNil,
                 calls |-> 0]

\* a Bridge whose Run has been started on a context
BridgeStarted ==
    /\ bridge = NewBridge
    /\ ctx = [done |-> FALSE]
    /\ run = [pc |-> "prepare", err |-> ErrNil]
    /\ engine = [pc |-> "idle", blocks |-> <<>>, blockNum |-> 0, err |-> ErrNil,
                 calls |-> 0]

\* the context is cancelled
Cancel ==
    /\ ~ctx.done
    /\ ctx' = [ctx EXCEPT !.done = TRUE]
    /\ UNCHANGED <<bridge, run, engine>>
    /\ UNCHANGED notBridgeVars

\* Run up to its loop: Prepare, LatestEventID or LastProcessedEventID of the
\* store may fail; otherwise lastProcessedEventID is stored
RunPrepare ==
    /\ run.pc = "prepare"
    /\ \/ /\ run' = [pc |-> "stopped", err |-> ErrStore]
          /\ bridge' = bridge
       \/ \E id \in EventIDs :
            /\ bridge' = [bridge EXCEPT !.lastProcessedEventID = id]
            /\ run' = [run EXCEPT !.pc = "select"]
    /\ UNCHANGED <<ctx, engine>>
    /\ UNCHANGED notBridgeVars

\* the select at the head of Run's loop
RunSelect ==
    /\ run.pc = "select"
    /\ run' = IF ctx.done THEN [pc |-> "stopped", err |-> ErrCanceled]
              ELSE [run EXCEPT !.pc = "fetch"]
    /\ UNCHANGED <<bridge, ctx, engine>>
    /\ UNCHANGED notBridgeVars

\* fetchSyncEvents and what follows it: an error ends Run; events clear
\* ready and are put in the store, which may fail; no events set ready, and
\* Run sleeps
RunFetch ==
    /\ run.pc = "fetch"
    /\ \/ /\ run' = [pc |-> "stopped", err |-> ErrFetch]
          /\ bridge' = bridge
       \/ /\ bridge' = [bridge EXCEPT !.ready = FALSE]
          /\ \/ run' = [pc |-> "stopped", err |-> ErrStore]
             \/ run' = [run EXCEPT !.pc = "select"]
       \/ /\ bridge' = [bridge EXCEPT !.ready = TRUE]
          /\ run' = [run EXCEPT !.pc = "sleep"]
    /\ UNCHANGED <<ctx, engine>>
    /\ UNCHANGED notBridgeVars

\* libcommon.Sleep(ctx, 30 s): it ends with the time, or with the context
RunSleep ==
    /\ run.pc = "sleep"
    /\ run' = IF ctx.done THEN [pc |-> "stopped", err |-> ErrCanceled]
              ELSE [run EXCEPT !.pc = "select"]
    /\ UNCHANGED <<bridge, ctx, engine>>
    /\ UNCHANGED notBridgeVars

\* ProcessNewBlocks(ctx, blocks): without blocks it returns nil; otherwise it
\* calls Synchronize for the number of the last block
ProcessNewBlocks(blocks) ==
    /\ engine.pc \in {"idle", "returned"}
    /\ engine.calls < MaxCalls
    /\ engine' = IF Len(blocks) = 0
                 THEN [engine EXCEPT !.pc = "returned", !.blocks = blocks,
                                     !.blockNum = 0, !.err = ErrNil, !.calls = @ + 1]
                 ELSE [engine EXCEPT !.pc = "select", !.blocks = blocks,
                                     !.blockNum = blocks[Len(blocks)], !.err = ErrNil,
                                     !.calls = @ + 1]
    /\ UNCHANGED <<bridge, ctx, run>>
    /\ UNCHANGED notBridgeVars

\* the select at the head of Synchronize's loop: with the context done,
\* Synchronize returns its error, and so does ProcessNewBlocks
SynchronizeSelect ==
    /\ engine.pc = "select"
    /\ engine' = IF ctx.done THEN [engine EXCEPT !.pc = "returned", !.err = ErrCanceled]
                 ELSE [engine EXCEPT !.pc = "ready"]
    /\ UNCHANGED <<bridge, ctx, run>>
    /\ UNCHANGED notBridgeVars

\* a Synchronize that does not wait for the bridge
SynchronizeReachedAlways(b, blockNum) == TRUE

\* the second operand of Synchronize's condition
SynchronizeReached(b, blockNum) == b.lastProcessedBlockNumber >= blockNum

\* b.ready.Load(): when set, Synchronize returns nil
SynchronizeLoadReady ==
    /\ engine.pc = "ready"
    /\ engine' = [engine EXCEPT !.pc = IF bridge.ready THEN "process" ELSE "reached"]
    /\ UNCHANGED <<bridge, ctx, run>>
    /\ UNCHANGED notBridgeVars

\* b.lastProcessedBlockNumber.Load() >= blockNum: Synchronize returns nil, or
\* goes round its loop
SynchronizeLoadBlock ==
    /\ engine.pc = "reached"
    /\ engine' = [engine EXCEPT
                    !.pc = IF SynchronizeReached(bridge, engine.blockNum)
                           THEN "process" ELSE "select"]
    /\ UNCHANGED <<bridge, ctx, run>>
    /\ UNCHANGED notBridgeVars

\* the loop of ProcessNewBlocks over its blocks, and the two writes to the
\* store after it: the values of lastProcessedBlockNumber and
\* lastProcessedEventID it can leave, and the error it can return
RECURSIVE ProcessOutcomes(_, _, _)
ProcessOutcomes(blocks, blockNumber, eventID) ==
    IF blocks = <<>>
    THEN {[block |-> blockNumber, event |-> eventID, err |-> e] : e \in {ErrNil, ErrStore}}
    ELSE IF ~isSprintStart(Head(blocks))
    THEN ProcessOutcomes(Tail(blocks), blockNumber, eventID)
    ELSE {[block |-> blockNumber, event |-> eventID, err |-> ErrStore]}
         \cup UNION {ProcessOutcomes(Tail(blocks), Head(blocks),
                                     IF lastDBID > eventID THEN lastDBID ELSE eventID) :
                       lastDBID \in EventIDs}

\* ProcessNewBlocks after Synchronize has returned nil
ProcessBlocks ==
    /\ engine.pc = "process"
    /\ \E o \in ProcessOutcomes(engine.blocks, bridge.lastProcessedBlockNumber,
                                bridge.lastProcessedEventID) :
          /\ bridge' = [bridge EXCEPT !.lastProcessedBlockNumber = o.block,
                                      !.lastProcessedEventID = o.event]
          /\ engine' = [engine EXCEPT !.pc = "returned", !.err = o.err]
    /\ UNCHANGED <<ctx, run>>
    /\ UNCHANGED notBridgeVars

(***************************************************************************)
(* turbo/builder: LatestBlockBuiltStore                                    *)
(***************************************************************************)
MaxThreads == 3
MaxBuilt == 2
MaxStoreCalls == 3

\* the nil *types.Block, and the blocks the builder makes
NilBlock == 0
Built == 1 .. MaxBuilt
\* the goroutines that use the store; NoThread holds an unlocked mutex
NoThread == 0
Threads == 1 .. MaxThreads

\* NewLatestBlockBuiltStore
NewLatestBlockBuiltStore == [block |-> NilBlock, lock |-> NoThread]

NotCalling == [pc |-> "idle", op |-> "none", block |-> NilBlock, ret |-> NilBlock,
               seen |-> 0, at |-> 0]

\* before a store is made
NoBuilder ==
    /\ store = NewLatestBlockBuiltStore
    /\ threads = <<>>
    /\ history = [completed |-> <<>>, calls |-> 0]

\* a store shared by goroutines that have not called it yet
StoreShared ==
    /\ store = NewLatestBlockBuiltStore
    /\ threads = [t \in Threads |-> NotCalling]
    /\ history = [completed |-> <<>>, calls |-> 0]

\* goroutine t calls AddBlockBuilt(block)
AddBlockBuilt(t, block) ==
    /\ threads[t].pc = "idle"
    /\ history.calls < MaxStoreCalls
    /\ threads' = [threads EXCEPT ![t] = [NotCalling EXCEPT !.pc = "lock",
                                                           !.op = "AddBlockBuilt",
                                                           !.block = block]]
    /\ history' = [history EXCEPT !.calls = @ + 1]
    /\ UNCHANGED store
    /\ UNCHANGED notBuilderVars

\* goroutine t calls BlockBuilt(); seen is the number of AddBlockBuilt calls
\* completed by then
BlockBuilt(t) ==
    /\ threads[t].pc = "idle"
    /\ history.calls < MaxStoreCalls
    /\ threads' = [threads EXCEPT ![t] = [NotCalling EXCEPT !.pc = "lock",
                                                           !.op = "BlockBuilt",
                                                           !.seen = Len(history.completed)]]
    /\ history' = [history EXCEPT !.calls = @ + 1]
    /\ UNCHANGED store
    /\ UNCHANGED notBuilderVars

\* a mutex that lets everybody in
LockFreeAlways(s) == TRUE

\* sync.Mutex: Lock returns when nobody holds the mutex
LockFree(s) == s.lock = NoThread

\* s.lock.Lock()
Lock(t) ==
    /\ threads[t].pc = "lock"
    /\ LockFree(store)
    /\ store' = [store EXCEPT !.lock = t]
    /\ threads' = [threads EXCEPT ![t].pc = "critical"]
    /\ UNCHANGED history
    /\ UNCHANGED notBuilderVars

\* s.block = block
StoreBlock(t) ==
    /\ threads[t].pc = "critical"
    /\ threads[t].op = "AddBlockBuilt"
    /\ store' = [store EXCEPT !.block = threads[t].block]
    /\ threads' = [threads EXCEPT ![t].pc = "unlock"]
    /\ UNCHANGED history
    /\ UNCHANGED notBuilderVars

\* return s.block: the result is read here; at is the number of
\* AddBlockBuilt calls completed at the read
LoadBlock(t) ==
    /\ threads[t].pc = "critical"
    /\ threads[t].op = "BlockBuilt"
    /\ threads' = [threads EXCEPT ![t].pc = "unlock", ![t].ret = store.block,
                                  ![t].at = Len(history.completed)]
    /\ UNCHANGED <<store, history>>
    /\ UNCHANGED notBuilderVars

\* the deferred s.lock.Unlock(), with which the call completes
Unlock(t) ==
    /\ threads[t].pc = "unlock"
    /\ store' = [store EXCEPT !.lock = NoThread]
    /\ threads' = [threads EXCEPT ![t].pc = "idle"]
    /\ history' = IF threads[t].op = "AddBlockBuilt"
                  THEN [history EXCEPT !.completed = Append(@, threads[t].block)]
                  ELSE history
    /\ UNCHANGED notBuilderVars

(***************************************************************************)
(* IntraBlockState: the state backend (core/state, not part of the host).  *)
(* A state s is a record of functions over Address.                        *)
(***************************************************************************)
Exist(s, addr) == s.exist[addr]
GetBalance(s, addr) == s.balance[addr]
GetNonce(s, addr) == s.nonce[addr]
GetCode(s, addr) == s.code[addr]
GetCodeHash(s, addr) ==
    IF ~s.exist[addr] THEN ZeroHash ELSE Keccak256Hash(s.code[addr])
GetState(s, addr, key) == s.storage[addr][key]
HasSelfdestructed(s, addr) == s.selfdestructed[addr]

\* GetOrNewStateObject: every setter materialises the account it writes
Touch(s, addr) == [s EXCEPT !.exist[addr] = TRUE]
SetNonce(s, addr, n) == [Touch(s, addr) EXCEPT !.nonce[addr] = n]
SetCode(s, addr, c) == [Touch(s, addr) EXCEPT !.code[addr] = c]
SetState(s, addr, key, v) == [Touch(s, addr) EXCEPT !.storage[addr][key] = v]
AddBalance(s, addr, v) == [Touch(s, addr) EXCEPT !.balance[addr] = @ + v]
SubBalance(s, addr, v) == [Touch(s, addr) EXCEPT !.balance[addr] = @ - v]

\* CreateAccount: a fresh object; an existing, not destructed account keeps
\* its balance
CreateAccount(s, addr, contractCreation) ==
    [s EXCEPT !.exist[addr] = TRUE,
              !.balance[addr] = IF s.exist[addr] /\ ~s.selfdestructed[addr]
                                THEN @ ELSE 0,
              !.nonce[addr] = 0,
              !.code[addr] = EmptyBytes,
              !.storage[addr] = [k \in Keys |-> 0],
              !.selfdestructed[addr] = FALSE,
              !.newlyCreated[addr] = TRUE]

\* Selfdestruct: marks the account, clears its balance; FALSE when there is
\* no such account
IbsSelfdestructs(s, addr) == s.exist[addr]
IbsSelfdestruct(s, addr) ==
    IF ~s.exist[addr] THEN s
    ELSE [s EXCEPT !.selfdestructed[addr] = TRUE, !.balance[addr] = 0]
\* Selfdestruct6780: only an account created in this transaction is marked
IbsSelfdestruct6780(s, addr) ==
    IF s.exist[addr] /\ s.newlyCreated[addr] THEN IbsSelfdestruct(s, addr) ELSE s

\* AddLog: the log joins the logs of the transaction
AddLog(s, log) == [s EXCEPT !.logs = Append(@, log)]

\* evm.Context.CanTransfer / Transfer
CanTransfer(s, addr, amount) == s.balance[addr] >= amount
Transfer(s, sender, recipient, amount, bailout) ==
    IF bailout /\ ~CanTransfer(s, sender, amount) THEN s
    ELSE AddBalance(SubBalance(s, sender, amount), recipient, amount)

\* evm.Precompile
IsPrecompile(addr) == addr = PrecompileAddr

\* a backend that hands out the same handle every time
SnapshotIdFirst(j) == 1

\* Snapshot / RevertToSnapshot: the journal is the list of valid revisions,
\* [id, state]; ids are handed out once and dropped by the revert that uses
\* them, together with every later one.  The access list is not part of s.
SnapshotId(j) == j.next
Snapshot(j, s) == [j EXCEPT !.valid = Append(@, [id |-> j.next, state |-> s]),
                            !.next = @ + 1,
                            !.acquired = @ + 1]
RevisionIndex(j, id) == CHOOSE i \in 1 .. Len(j.valid) : j.valid[i].id = id
\* a backend that goes back to its oldest valid snapshot
RevertStateOldest(j, id) == j.valid[1].state

RevertState(j, id) == j.valid[RevisionIndex(j, id)].state
RevertToSnapshot(j, id) ==
    [j EXCEPT !.valid = SubSeq(@, 1, RevisionIndex(j, id) - 1),
              !.reverted = Append(@, id)]

\* AddAddressToAccessList / AddSlotToAccessList: the entry joins the tracked
\* set; the flag tells whether it was new.  Entries are never taken out: a
\* revert to a snapshot leaves the access list as it is.
AddAddressToAccessList(al, addr) ==
    [al |-> [al EXCEPT !.addresses = @ \cup {addr}],
     addrMod |-> addr \notin al.addresses]
AddSlotToAccessList(al, addr, key) ==
    [al |-> [al EXCEPT !.slots = @ \cup {<<addr, key>>}],
     slotMod |-> <<addr, key>> \notin al.slots]

\* a backend that journals the access list and rolls it back with the rest
RevertedAccessListRolledBack(al, before) == before

\* the access list after RevertToSnapshot, from the list at the revert and
\* the list the reverted message found when it arrived
RevertedAccessList(al, before) == al

(***************************************************************************)
(* Fork rules and the host's configuration                                 *)
(***************************************************************************)
\* chain rules at a fork level: every fork includes the earlier ones
RulesAt(level, aura) ==
    [IsHomestead |-> level >= Homestead,
     IsSpuriousDragon |-> level >= SpuriousDragon,
     IsPetersburg |-> level >= Petersburg,
     IsIstanbul |-> level >= Istanbul,
     IsBerlin |-> level >= Berlin,
     IsLondon |-> level >= London,
     IsShanghai |-> level >= Shanghai,
     IsCancun |-> level >= Cancun,
     IsPrague |-> level >= Prague,
     IsAura |-> aura]

\* vm.Config.HasEip3860
HasEip3860(rules) == rules.IsShanghai

\* the revision NewEvmOneHost picks for a rule set
RevisionOf(rules) ==
    IF rules.IsPrague THEN Prague
    ELSE IF rules.IsCancun THEN Cancun
    ELSE IF rules.IsShanghai THEN Shanghai
    ELSE IF rules.IsLondon THEN London
    ELSE IF rules.IsBerlin THEN Berlin
    ELSE IF rules.IsIstanbul THEN Istanbul
    ELSE IF rules.IsPetersburg THEN Petersburg
    ELSE Frontier

NewEvmOneHost(rules, restoreState, bailout) ==
    [rules |-> rules, rev |-> RevisionOf(rules),
     config |-> [RestoreState |-> restoreState], bailout |-> bailout]

(***************************************************************************)
(* HostImpl.SetStorage                                                     *)
(***************************************************************************)
StorageAssigned == "StorageAssigned"
StorageAdded == "StorageAdded"
StorageDeleted == "StorageDeleted"
StorageModified == "StorageModified"
StorageDeletedAdded == "StorageDeletedAdded"
StorageModifiedDeleted == "StorageModifiedDeleted"
StorageDeletedRestored == "StorageDeletedRestored"
StorageAddedDeleted == "StorageAddedDeleted"
StorageModifiedRestored == "StorageModifiedRestored"

\* a slip in the classification: the restored test compares with current
StorageStatusOfSwapped(original, current, value) ==
    LET dirty == original # current
        restored == current = value
    IN  IF ~dirty /\ ~restored
        THEN (IF current = 0 THEN StorageAdded
              ELSE IF value = 0 THEN StorageDeleted ELSE StorageModified)
        ELSE IF dirty /\ ~restored
        THEN (IF current = 0 /\ value # 0 THEN StorageDeletedAdded
              ELSE IF current # 0 /\ value = 0 THEN StorageModifiedDeleted
              ELSE StorageAssigned)
        ELSE IF dirty /\ restored
        THEN (IF current = 0 THEN StorageDeletedRestored
              ELSE IF value = 0 THEN StorageAddedDeleted
              ELSE StorageModifiedRestored)
        ELSE StorageAssigned

\* a classification that takes every write to a clean slot for a change
StorageStatusOfNoRewrite(original, current, value) ==
    IF original = current
    THEN (IF current = 0 THEN StorageAdded
          ELSE IF value = 0 THEN StorageDeleted ELSE StorageModified)
    ELSE StorageAssigned

\* the status SetStorage computes from the three values
StorageStatusOf(original, current, value) ==
    LET dirty == original # current
        restored == original = value
        currentIsZero == current = 0
        valueIsZero == value = 0
    IN  IF ~dirty /\ ~restored
        THEN (IF currentIsZero THEN StorageAdded
              ELSE IF valueIsZero THEN StorageDeleted
              ELSE StorageModified)
        ELSE IF dirty /\ ~restored
        THEN (IF currentIsZero /\ ~valueIsZero THEN StorageDeletedAdded
              ELSE IF ~currentIsZero /\ valueIsZero THEN StorageModifiedDeleted
              ELSE StorageAssigned)
        ELSE IF dirty /\ restored
        THEN (IF currentIsZero THEN StorageDeletedRestored
              ELSE IF valueIsZero THEN StorageAddedDeleted
              ELSE StorageModifiedRestored)
        ELSE StorageAssigned

\* a host that spares the backend the writes it classifies as Assigned
SetStorageStateSkipsAssigned(s, addr, key, value, status) ==
    IF status = StorageAssigned THEN s ELSE SetState(s, addr, key, value)

\* the write SetStorage makes after the classification, whatever the status
SetStorageState(s, addr, key, value, status) == SetState(s, addr, key, value)

\* HostImpl.GetStorage
HostGetStorage(s, addr, key) == GetState(s, addr, key)

(***************************************************************************)
(* HostImpl.Selfdestruct: the state it leaves and the value it returns     *)
(***************************************************************************)
\* a host that takes the legacy path under every revision
HostSelfdestructLegacy(h, s, addr, beneficiary) ==
    LET balance == GetBalance(s, addr)
        s1 == AddBalance(s, beneficiary, balance)
    IN  [ibs |-> IbsSelfdestruct(s1, addr), ret |-> IbsSelfdestructs(s1, addr)]

\* a host that takes the EIP-6780 path under every revision
HostSelfdestruct6780(h, s, addr, beneficiary) ==
    LET balance == GetBalance(s, addr)
        s1 == SubBalance(s, addr, balance)
        s2 == AddBalance(s1, beneficiary, balance)
        s3 == IbsSelfdestruct6780(s2, addr)
    IN  [ibs |-> s3, ret |-> HasSelfdestructed(s3, addr)]

HostSelfdestruct(h, s, addr, beneficiary) ==
    IF h.rev >= Cancun
    THEN LET balance == GetBalance(s, addr)
             s1 == SubBalance(s, addr, balance)
             s2 == AddBalance(s1, beneficiary, balance)
             s3 == IbsSelfdestruct6780(s2, addr)
         IN  [ibs |-> s3, ret |-> HasSelfdestructed(s3, addr)]
    ELSE LET balance == GetBalance(s, addr)
             s1 == AddBalance(s, beneficiary, balance)
         IN  [ibs |-> IbsSelfdestruct(s1, addr), ret |-> IbsSelfdestructs(s1, addr)]

(***************************************************************************)
(* HostImpl.AccessAccount / AccessStorage                                  *)
(***************************************************************************)
ColdAccess == "ColdAccess"
WarmAccess == "WarmAccess"

\* a host that reports the two statuses the wrong way round
HostAccessAccountSwapped(al, addr) ==
    LET r == AddAddressToAccessList(al, addr)
    IN  [al |-> r.al, status |-> IF r.addrMod THEN WarmAccess ELSE ColdAccess]

HostAccessAccount(al, addr) ==
    LET r == AddAddressToAccessList(al, addr)
    IN  [al |-> r.al, status |-> IF r.addrMod THEN ColdAccess ELSE WarmAccess]

HostAccessStorage(al, addr, key) ==
    LET r == AddSlotToAccessList(al, addr, key)
    IN  [al |-> r.al, status |-> IF r.slotMod THEN ColdAccess ELSE WarmAccess]

(***************************************************************************)
(* HostImpl.GetBlockHash: panics before its return statement               *)
(***************************************************************************)
HostGetBlockHash(number) == [panic |-> TRUE, ret |-> ZeroHash]

(***************************************************************************)
(* HostImpl.EmitLog                                                        *)
(***************************************************************************)
\* h.txCtx.Origin: the account that signed the transaction
Origin == CallerAddr
\* h.blockCtx.BlockNumber
BlockNumber == 7
Topics == {<<>>, <<1>>}
LogData == {EmptyBytes, Bytes(1, Byte60)}

\* the log EmitLog hands to AddLog: its address is the origin of the
\* transaction, whatever addr is
HostEmitLog(h, s, addr, topics, data) ==
    AddLog(s, [Address |-> Origin, Topics |-> topics, Data |-> data,
               BlockNumber |-> BlockNumber])

(***************************************************************************)
(* Messages and results                                                    *)
(***************************************************************************)
Message(kind, recipient, sender, value, input, gas, depth, static, salt, codeAddress) ==
    [kind |-> kind, recipient |-> recipient, sender |-> sender, value |-> value,
     input |-> input, gas |-> gas, depth |-> depth, static |-> static,
     salt |-> salt, codeAddress |-> codeAddress]

\* the five values handleCalls and Call return
Result(output, gasLeft, gasRefund, createAddr, err) ==
    [output |-> output, gasLeft |-> gasLeft, gasRefund |-> gasRefund,
     createAddr |-> createAddr, err |-> err]

\* what Execute or RunPrecompiledContract hands back
Outcome(output, gasLeft, gasRefund, err) ==
    [output |-> output, gasLeft |-> gasLeft, gasRefund |-> gasRefund, err |-> err]

(***************************************************************************)
(* HostImpl.GetTxContext                                                   *)
(***************************************************************************)
\* a pointer field of the block context: nil, or pointing at a value
NilPointer == [nil |-> TRUE, value |-> 0]
Pointer(v) == [nil |-> FALSE, value |-> v]
Fees == {0, 1}

\* evmtypes.BlockContext: BaseFee, BlobBaseFee and PrevRanDao are pointers,
\* nil in the blocks from before the forks that brought them in
BlockContexts ==
    [BaseFee : {NilPointer} \cup {Pointer(v) : v \in Fees},
     BlobBaseFee : {NilPointer} \cup {Pointer(v) : v \in Fees},
     PrevRanDao : {NilPointer} \cup {Pointer(v) : v \in Fees},
     BlockNumber : {BlockNumber}]

\* the host NewEvmOneHost makes in an environment with this block context
WithBlockContext(h, blockCtx) ==
    [rules |-> h.rules, rev |-> h.rev, config |-> h.config, bailout |-> h.bailout,
     blockCtx |-> blockCtx]

\* BlobBaseFee and PrevRanDao are read under a nil check and left zero
\* otherwise; BaseFee.Bytes32() is called on the pointer as it is, and
\* dereferences it
HostGetTxContext(h) ==
    IF h.blockCtx.BaseFee.nil
    THEN [panic |-> TRUE,
          ret |-> [Origin |-> ZeroAddress, Number |-> 0, PrevRandao |-> 0,
                   BaseFee |-> 0, BlobBaseFee |-> 0]]
    ELSE [panic |-> FALSE,
          ret |-> [Origin |-> Origin, Number |-> h.blockCtx.BlockNumber,
                   PrevRandao |-> IF h.blockCtx.PrevRanDao.nil THEN 0
                                  ELSE h.blockCtx.PrevRanDao.value,
                   BaseFee |-> h.blockCtx.BaseFee.value,
                   BlobBaseFee |-> IF h.blockCtx.BlobBaseFee.nil THEN 0
                                   ELSE h.blockCtx.BlobBaseFee.value]]

(***************************************************************************)
(* HostImpl.handleCalls                                                    *)
(***************************************************************************)
\* a host without the balance precheck
HandleCallsInsufficientNever(h, s, m) == FALSE

\* the balance precheck
HandleCallsInsufficient(h, s, m) ==
    /\ m.kind \in {"Call", "CallCode"}
    /\ m.value # 0
    /\ ~CanTransfer(s, m.sender, m.value)
    /\ ~h.bailout

\* a host that makes the account whatever the value
SkipsAccountNever(h, m, isPrecompile) == FALSE

\* no account is made for a call without value to a missing recipient
SkipsAccount(h, m, isPrecompile) ==
    ~isPrecompile /\ h.rules.IsSpuriousDragon /\ m.value = 0

\* a handleCalls that moves no value
HandleCallsTransferNone(h, s, m) == s

\* the account creation and the transfer of kind Call
HandleCallsTransfer(h, s, m) ==
    IF m.kind = "Call"
    THEN LET s1 == IF ~Exist(s, m.recipient)
                   THEN CreateAccount(s, m.recipient, FALSE) ELSE s
         IN  Transfer(s1, m.sender, m.recipient, m.value, h.bailout)
    ELSE s

\* a host that takes its snapshot after the account creation and the transfer
HandleCallsSnapshotStateLate(h, s, m) == HandleCallsTransfer(h, s, m)

\* the state the snapshot of handleCalls records
HandleCallsSnapshotState(h, s, m) == s

\* handleCalls up to the run of the code: what comes next, and the state,
\* the journal and the snapshot it has made by then
HandleCallsEnter(h, s, j, m) ==
    LET isPrecompile == IsPrecompile(m.codeAddress)
        code == IF isPrecompile THEN EmptyBytes ELSE GetCode(s, m.codeAddress)
        j1 == Snapshot(j, HandleCallsSnapshotState(h, s, m))
    IN  IF HandleCallsInsufficient(h, s, m)
        THEN [next |-> "return", ibs |-> s, journal |-> j, snapshot |-> 0,
              code |-> EmptyBytes,
              result |-> Result(EmptyBytes, m.gas, 0, ZeroAddress, ErrInsufficientBalance)]
        ELSE IF m.kind = "Call" /\ ~Exist(s, m.recipient)
                /\ SkipsAccount(h, m, isPrecompile)
        THEN [next |-> "return", ibs |-> s, journal |-> j1, snapshot |-> SnapshotId(j),
              code |-> EmptyBytes,
              result |-> Result(EmptyBytes, m.gas, 0, ZeroAddress, ErrNil)]
        ELSE [next |-> IF isPrecompile THEN "precompile"
                       ELSE IF code.len = 0 THEN "empty" ELSE "execute",
              ibs |-> HandleCallsTransfer(h, s, m), journal |-> j1,
              snapshot |-> SnapshotId(j), code |-> code,
              result |-> Result(EmptyBytes, m.gas, 0, ZeroAddress, ErrNil)]

\* a handleCalls that never goes back to its snapshot
HandleCallsRevertsNever(h, err) == FALSE

\* a handleCalls that goes back to its snapshot on an error only
HandleCallsRevertsOnError(h, err) == err # ErrNil

\* the condition under which handleCalls reverts to its snapshot
HandleCallsReverts(h, err) == err # ErrNil \/ h.config.RestoreState

\* the gas handleCalls returns: the assignment gas = 0 made for an error other
\* than ErrExecutionReverted writes the parameter, not the returned gasLeft
HandleCallsGasLeft(out) == out.gasLeft

\* handleCalls from the return of the code on
HandleCallsExit(h, s, j, snapshot, out) ==
    LET revert == HandleCallsReverts(h, out.err)
    IN  [ibs |-> IF revert THEN RevertState(j, snapshot) ELSE s,
         journal |-> IF revert THEN RevertToSnapshot(j, snapshot) ELSE j,
         result |-> Result(out.output, HandleCallsGasLeft(out), out.gasRefund,
                           ZeroAddress, out.err)]

(***************************************************************************)
(* HostImpl.Call                                                           *)
(***************************************************************************)
\* the kinds Call hands to handleCalls
IsHandleCallsKind(kind) == kind \in {"Call", "DelegateCall", "CallCode"}

\* a host that leaves the nonce out of the address of a Create
CreateRecipientNoNonce(s, m) ==
    IF m.kind = "Create" THEN CreateAddress(m.sender, 0)
    ELSE IF m.kind = "Create2"
    THEN CreateAddress2(m.sender, m.salt, Keccak256Hash(m.input))
    ELSE m.recipient

\* a host that derives every created address from the sender's nonce
CreateRecipientByNonce(s, m) ==
    IF m.kind \in {"Create", "Create2"}
    THEN CreateAddress(m.sender, GetNonce(s, m.sender))
    ELSE m.recipient

\* the recipient of a creation
CreateRecipient(s, m) ==
    IF m.kind = "Create" THEN CreateAddress(m.sender, GetNonce(s, m.sender))
    ELSE IF m.kind = "Create2"
    THEN CreateAddress2(m.sender, m.salt, Keccak256Hash(m.input))
    ELSE m.recipient

\* the code Call hands to Execute
CreateCode(m) == IF m.kind \in {"Create", "Create2"} THEN m.input ELSE EmptyBytes

\* a host without the overflow precheck
NonceOverflowsNever(nonce) == FALSE

\* nonce+1 < nonce in the nonce type
NonceOverflows(nonce) == (nonce + 1) % NonceModulus < nonce

\* a host that looks at the nonce before the balance
CreatePrecheckNonceFirst(s, m) ==
    IF NonceOverflows(GetNonce(s, m.sender)) THEN ErrNonceUintOverflow
    ELSE IF ~CanTransfer(s, m.sender, m.value) THEN ErrInsufficientBalance
    ELSE ErrNil

\* the two prechecks of a creation, in their order: the error of the first
\* that fails
CreatePrecheck(s, m) ==
    IF ~CanTransfer(s, m.sender, m.value) THEN ErrInsufficientBalance
    ELSE IF NonceOverflows(GetNonce(s, m.sender)) THEN ErrNonceUintOverflow
    ELSE ErrNil

\* a collision test that forgets the code
IsCollisionNonceOnly(s, recipient) == GetNonce(s, recipient) # 0

\* an account with a nonce or with code is in the way
IsCollision(s, recipient) ==
    LET contractHash == GetCodeHash(s, recipient)
    IN  GetNonce(s, recipient) # 0
        \/ (contractHash # ZeroHash /\ contractHash # emptyCodeHash)

\* a host that leaves the recipient of a creation cold
CreateAccessListNever(h, al, recipient) == al

\* the access list after the warm-up of the recipient, made under Berlin
\* once the nonce of the sender is set
CreateAccessList(h, al, recipient) ==
    IF h.rules.IsBerlin THEN AddAddressToAccessList(al, recipient).al ELSE al

\* Call, for the kinds it keeps, up to the run of the init code
CallEnter(h, s, j, al, m) ==
    LET recipient == CreateRecipient(s, m)
        nonce == GetNonce(s, m.sender)
        s1 == SetNonce(s, m.sender, (nonce + 1) % NonceModulus)
        al1 == CreateAccessList(h, al, recipient)
        s2 == CreateAccount(s1, recipient, TRUE)
        s3 == IF h.rules.IsSpuriousDragon THEN SetNonce(s2, recipient, 1) ELSE s2
        s4 == Transfer(s3, m.sender, recipient, m.value, FALSE)
    IN  IF CreatePrecheck(s, m) # ErrNil
        THEN [next |-> "return", ibs |-> s, journal |-> j, accessList |-> al,
              snapshot |-> 0, recipient |-> recipient,
              result |-> Result(EmptyBytes, m.gas, 0, ZeroAddress, CreatePrecheck(s, m))]
        ELSE IF IsCollision(s1, recipient)
        THEN [next |-> "return", ibs |-> s1, journal |-> j, accessList |-> al1,
              snapshot |-> 0, recipient |-> recipient,
              result |-> Result(EmptyBytes, m.gas, 0, ZeroAddress,
                                ErrContractAddressCollision)]
        ELSE [next |-> "execute", ibs |-> s4, journal |-> Snapshot(j, s1),
              accessList |-> al1, snapshot |-> SnapshotId(j), recipient |-> recipient,
              result |-> Result(EmptyBytes, m.gas, 0, ZeroAddress, ErrNil)]

\* a size check without the exception for legacy chains
CodeSizeExceededOnAura(h, ret) ==
    h.rules.IsSpuriousDragon /\ ret.len > MaxCodeSize

\* a size check that ignores the limit
CodeSizeExceededNever(h, ret) == FALSE

\* EIP-170
CodeSizeExceeded(h, ret) ==
    /\ h.rules.IsSpuriousDragon
    /\ ret.len > MaxCodeSize
    /\ (~h.rules.IsAura \/ HasEip3860(h.rules))

\* a host that forbids the prefix under every rule set
InvalidCodePrefixUnconditional(h, ret) == ret.len >= 1 /\ ret.first = ByteEF

\* EIP-3541
InvalidCodePrefix(h, ret) ==
    h.rules.IsLondon /\ ret.len >= 1 /\ ret.first = ByteEF

\* a host that stores code for nothing
CreateDataGasFree(ret) == 0

\* the gas the storage of the code costs
CreateDataGasOf(ret) == ret.len * CreateDataGas

\* a host that charges for the code whatever gas is left
AffordsCodeStoreAlways(gasLeft, createDataGas) == TRUE

\* the gas left pays for storing the code
AffordsCodeStore(gasLeft, createDataGas) == gasLeft >= createDataGas

\* a host that fails the creation under every rule set
PenalisesCodeStoreAlways(h) == TRUE

\* code that cannot be paid for is an error from Homestead on
PenalisesCodeStore(h) == h.rules.IsHomestead

\* a host that keeps the state of a failed creation
CallRevertsNever(h, err) == FALSE

\* the condition under which Call reverts to its snapshot
CallReverts(h, err) ==
    err # ErrNil /\ (h.rules.IsHomestead \/ err # ErrCodeStoreOutOfGas)

\* the created address Call returns: createAddr is never assigned
CallCreateAddr(recipient) == ZeroAddress

\* Call from the return of the init code on
CallExit(h, s, j, snapshot, recipient, out) ==
    LET ret == out.output
        err1 == IF out.err = ErrNil /\ CodeSizeExceeded(h, ret)
                THEN ErrMaxCodeSizeExceeded ELSE out.err
        err2 == IF err1 = ErrNil /\ InvalidCodePrefix(h, ret)
                THEN ErrInvalidCode ELSE err1
        createDataGas == CreateDataGasOf(ret)
        stores == err2 = ErrNil /\ AffordsCodeStore(out.gasLeft, createDataGas)
        err3 == IF err2 = ErrNil /\ ~stores /\ PenalisesCodeStore(h)
                THEN ErrCodeStoreOutOfGas ELSE err2
        gasLeft == IF stores THEN out.gasLeft - createDataGas ELSE out.gasLeft
        s1 == IF stores THEN SetCode(s, recipient, ret) ELSE s
        revert == CallReverts(h, err3)
    IN  [ibs |-> IF revert THEN RevertState(j, snapshot) ELSE s1,
         journal |-> IF revert THEN RevertToSnapshot(j, snapshot) ELSE j,
         result |-> Result(ret, gasLeft, out.gasRefund, CallCreateAddr(recipient), err3)]

(***************************************************************************)
(* The interpreter (Execute) and the precompiles, as the host sees them:   *)
(* a run ends with an output, the gas left, a refund and an error; code of *)
(* length 0 stops at once and calls nothing.                               *)
(***************************************************************************)
GasLeftChoices(gas) == {0, gas}
PrecompileCost == 100

ExecuteOutcomes(path, code, gas) ==
    IF code.len = 0 THEN {Outcome(EmptyBytes, gas, 0, ErrNil)}
    ELSE {Outcome(o, g, r, ErrNil) :
            o \in (IF path = "create" THEN Outputs ELSE {EmptyBytes, Bytes(1, Byte60)}),
            g \in GasLeftChoices(gas), r \in {0, 1}}
         \cup {Outcome(o, g, 0, e) :
            o \in {EmptyBytes, Bytes(1, Byte60)}, g \in GasLeftChoices(gas),
            e \in {ErrExecutionReverted, ErrFault}}

\* vm.RunPrecompiledContract: out of gas, a run that succeeds, a run that fails
RunPrecompiledContract(gas) ==
    IF gas < PrecompileCost THEN {Outcome(EmptyBytes, 0, 0, ErrFault)}
    ELSE {Outcome(o, gas - PrecompileCost, 0, ErrNil) : o \in {EmptyBytes, Bytes(1, Byte60)}}
         \cup {Outcome(EmptyBytes, gas - PrecompileCost, 0, ErrFault)}

(***************************************************************************)
(* Initial states                                                          *)
(***************************************************************************)
\* gas handed to a call or create
TxGas == 5000000
Gases == {TxGas}
Values == {0, 1, 2}

\* what the pre-state holds at the addresses a creation derives
Occupancy == {"absent", "balance", "nonce", "code"}

InitialState(fresh, occ, selfNonce, slots) ==
    [exist |-> [a \in Address |->
                  IF a \in {SelfAddr, ContractAddr, CallerAddr} THEN TRUE
                  ELSE IF a = FreshAddr THEN fresh
                  ELSE IF a \in Derived THEN occ # "absent"
                  ELSE FALSE],
     balance |-> [a \in Address |->
                  IF a = SelfAddr THEN 1
                  ELSE IF a \in Derived /\ occ = "balance" THEN 1
                  ELSE 0],
     nonce |-> [a \in Address |->
                  IF a = SelfAddr THEN selfNonce
                  ELSE IF a \in {ContractAddr, CallerAddr} THEN 1
                  ELSE IF a \in Derived /\ occ = "nonce" THEN 1
                  ELSE 0],
     code |-> [a \in Address |->
                  IF a \in {SelfAddr, ContractAddr} THEN ContractCode
                  ELSE IF a \in Derived /\ occ = "code" THEN ContractCode
                  ELSE EmptyBytes],
     storage |-> [a \in Address |-> IF a = SelfAddr THEN slots ELSE [k \in Keys |-> 0]],
     selfdestructed |-> [a \in Address |-> FALSE],
     newlyCreated |-> [a \in Address |-> FALSE],
     logs |-> <<>>]

\* a frame of the interpreter: the message it runs, the kind and the code
\* Execute was given, the snapshot the host took for it, and the state the
\* host was in when the message arrived
Frame(m, path, execKind, code, snapshot, pre, preAccess, preJournal) ==
    [m |-> m, path |-> path, execKind |-> execKind, code |-> code,
     snapshot |-> snapshot, halted |-> FALSE, called |-> FALSE,
     pre |-> pre, preAccess |-> preAccess, preJournal |-> preJournal]

NoResult == Result(EmptyBytes, 0, 0, ZeroAddress, ErrNil)
EmptyJournal == [valid |-> <<>>, next |-> 1, acquired |-> 0, reverted |-> <<>>]
EmptyAccessList == [addresses |-> {}, slots |-> {}]

\* the state after construction: the host made for a rule set, the backend at
\* the start of the transaction, the transaction's frame running SelfAddr
InitHostWith(hosts, freshs, occs, selfNonces, slotss) ==
    /\ host \in hosts
    /\ \E fresh \in freshs, occ \in occs, selfNonce \in selfNonces, slots \in slotss :
          ibs = InitialState(fresh, occ, selfNonce, slots)
    /\ committed = ibs.storage
    /\ journal = EmptyJournal
    /\ accessList = EmptyAccessList
    /\ stack = <<Frame(Message("Call", SelfAddr, CallerAddr, 0, EmptyBytes, TxGas, 0,
                               FALSE, 0, SelfAddr),
                       "root", "Call", ContractCode, 0, ibs, accessList, journal)>>
    /\ result = NoResult
    /\ last = [op |-> "none"]
    /\ steps = 0

\* the state after construction of a host, with no other program running
InitWith(hosts, freshs, occs, selfNonces, slotss) ==
    /\ InitHostWith(hosts, freshs, occs, selfNonces, slotss)
    /\ NoCommitment
    /\ NoBridge
    /\ NoBuilder

(***************************************************************************)
(* The executing frame                                                     *)
(***************************************************************************)
Top == stack[Len(stack)]
Self == Top.m.recipient
\* the interpreter is running code that may still call the host
Running == Top.code.len > 0 /\ ~Top.halted

(***************************************************************************)
(* Actions: the host capabilities the running code calls                   *)
(***************************************************************************)
\* HostImpl.SetStorage(addr, key, value), addr the executing account
SetStorage(key, value) ==
    /\ Running
    /\ steps < MaxSteps
    /\ ~Top.m.static
    /\ LET current == GetState(ibs, Self, key)
           original == committed[Self][key]
           status == StorageStatusOf(original, current, value)
       IN  /\ ibs' = SetStorageState(ibs, Self, key, value, status)
           /\ last' = [op |-> "SetStorage", addr |-> Self, key |-> key,
                       value |-> value, original |-> original, current |-> current,
                       status |-> status, pre |-> ibs]
    /\ steps' = steps + 1
    /\ UNCHANGED <<host, committed, journal, accessList, stack, result>>
    /\ UNCHANGED otherVars

\* HostImpl.Selfdestruct(addr, beneficiary); the frame halts after it
Selfdestruct(beneficiary) ==
    /\ Running
    /\ steps < MaxSteps
    /\ ~Top.m.static
    /\ LET r == HostSelfdestruct(host, ibs, Self, beneficiary)
       IN  /\ ibs' = r.ibs
           /\ last' = [op |-> "Selfdestruct", addr |-> Self,
                       beneficiary |-> beneficiary, ret |-> r.ret, pre |-> ibs]
    /\ stack' = [stack EXCEPT ![Len(stack)].halted = TRUE]
    /\ steps' = steps + 1
    /\ UNCHANGED <<host, committed, journal, accessList, result>>
    /\ UNCHANGED otherVars

\* the addresses the running code asks about: its own, another one, and the
\* recipient of the message it sent last
AccessTargets ==
    {Self, FreshAddr} \cup (IF last.op = "Call" THEN {last.recipient} ELSE {})

\* HostImpl.AccessAccount(addr)
AccessAccount(addr) ==
    /\ Running
    /\ steps < MaxSteps
    /\ LET r == HostAccessAccount(accessList, addr)
       IN  /\ accessList' = r.al
           /\ last' = [op |-> "AccessAccount", addr |-> addr, status |-> r.status,
                       preAccess |-> accessList]
    /\ steps' = steps + 1
    /\ UNCHANGED <<host, ibs, committed, journal, stack, result>>
    /\ UNCHANGED otherVars

\* HostImpl.AccessStorage(addr, key)
AccessStorage(addr, key) ==
    /\ Running
    /\ steps < MaxSteps
    /\ LET r == HostAccessStorage(accessList, addr, key)
       IN  /\ accessList' = r.al
           /\ last' = [op |-> "AccessStorage", addr |-> addr, key |-> key,
                       status |-> r.status, preAccess |-> accessList]
    /\ steps' = steps + 1
    /\ UNCHANGED <<host, ibs, committed, journal, stack, result>>
    /\ UNCHANGED otherVars

\* the process was ended by a panic of the host
Panicked == last.op = "GetBlockHash" /\ last.panic

\* HostImpl.GetBlockHash(number): the panic unwinds the interpreter and ends
\* the process; nothing is returned to the running code
GetBlockHash(number) ==
    /\ Running
    /\ ~Panicked
    /\ LET r == HostGetBlockHash(number)
       IN  last' = [op |-> "GetBlockHash", number |-> number, panic |-> r.panic,
                    ret |-> r.ret]
    /\ UNCHANGED <<host, ibs, committed, journal, accessList, stack, result, steps>>
    /\ UNCHANGED otherVars

\* the process was ended by a nil dereference in GetTxContext
TxContextPanicked == last.op = "GetTxContext" /\ last.panic

\* HostImpl.GetTxContext(): a panic unwinds the interpreter and ends the
\* process; nothing is returned to the running code
GetTxContext ==
    /\ Running
    /\ ~TxContextPanicked
    /\ LET r == HostGetTxContext(host)
       IN  last' = [op |-> "GetTxContext", panic |-> r.panic, ret |-> r.ret]
    /\ UNCHANGED <<host, ibs, committed, journal, accessList, stack, result, steps>>
    /\ UNCHANGED otherVars

\* HostImpl.EmitLog(addr, topics, data), addr the executing account
EmitLog(topics, data) ==
    /\ Running
    /\ steps < MaxSteps
    /\ ~Top.m.static
    /\ ibs' = HostEmitLog(host, ibs, Self, topics, data)
    /\ last' = [op |-> "EmitLog", addr |-> Self, topics |-> topics, data |-> data,
                pre |-> ibs]
    /\ steps' = steps + 1
    /\ UNCHANGED <<host, committed, journal, accessList, stack, result>>
    /\ UNCHANGED otherVars

\* the messages the running code may send: evmone fills recipient, sender and
\* code address from the executing frame, by kind
CallTargets == {PrecompileAddr, ContractAddr, FreshAddr}
Messages ==
    LET depth == Len(stack)
        values == IF Top.m.static THEN {0} ELSE Values
    IN  {Message("Call", r, Self, v, EmptyBytes, g, depth, Top.m.static, 0, r) :
            r \in CallTargets, v \in values, g \in Gases}
        \cup {Message("StaticCall", r, Self, 0, EmptyBytes, g, depth, TRUE, 0, r) :
            r \in CallTargets, g \in Gases}
        \cup {Message("CallCode", Self, Self, v, EmptyBytes, g, depth, Top.m.static, 0, c) :
            c \in CallTargets, v \in values, g \in Gases}
        \cup {Message("DelegateCall", Self, Top.m.sender, Top.m.value, EmptyBytes, g,
                      depth, Top.m.static, 0, c) :
            c \in CallTargets, g \in Gases}
        \cup (IF Top.m.static \/ Self \notin Creators THEN {}
              ELSE {Message("Create", ZeroAddress, Self, v, InitCodes[i], g, depth,
                            FALSE, 0, ZeroAddress) :
                      v \in Values, i \in 1 .. Len(InitCodes), g \in Gases}
                   \cup {Message("Create2", ZeroAddress, Self, v, InitCodes[i], g, depth,
                                 FALSE, t, ZeroAddress) :
                      v \in Values, i \in 1 .. Len(InitCodes), t \in Salts, g \in Gases}
                   \cup {Message("EofCreate", ZeroAddress, Self, v, InitCodes[2], g, depth,
                                 FALSE, 0, ZeroAddress) :
                      v \in Values, g \in Gases})

\* what a finished dispatch leaves for inspection: the message, the recipient
\* it resolved, what ran, what the run handed back, and the state before
Done(m, path, recipient, ran, out, pre, preAccess, preJournal) ==
    [op |-> "Call", m |-> m, path |-> path, recipient |-> recipient, ran |-> ran,
     out |-> out, pre |-> pre, preAccess |-> preAccess, preJournal |-> preJournal]
NoOutcome == Outcome(EmptyBytes, 0, 0, ErrNil)
Calling == [stack EXCEPT ![Len(stack)].called = TRUE]

\* Call handing the message to handleCalls
CallHandleCalls(m) ==
    LET e == HandleCallsEnter(host, ibs, journal, m)
    IN  /\ accessList' = accessList
        /\ IF e.next = "return"
           THEN /\ ibs' = e.ibs
                /\ journal' = e.journal
                /\ result' = e.result
                /\ last' = Done(m, "calls", m.recipient, "none", NoOutcome,
                                ibs, accessList, journal)
                /\ stack' = Calling
           ELSE IF e.next = "execute"
           THEN /\ ibs' = e.ibs
                /\ journal' = e.journal
                /\ stack' = Append(Calling, Frame(m, "calls", "Call", e.code, e.snapshot,
                                                  ibs, accessList, journal))
                /\ last' = [op |-> "Execute"]
                /\ result' = result
           ELSE \E out \in (IF e.next = "precompile" THEN RunPrecompiledContract(m.gas)
                            ELSE {Outcome(EmptyBytes, m.gas, 0, ErrNil)}) :
                  LET x == HandleCallsExit(host, e.ibs, e.journal, e.snapshot, out)
                  IN  /\ ibs' = x.ibs
                      /\ journal' = x.journal
                      /\ result' = x.result
                      /\ last' = Done(m, "calls", m.recipient, e.next, out,
                                      ibs, accessList, journal)
                      /\ stack' = Calling

\* Call keeping the message: the creation path
CallCreate(m) ==
    LET e == CallEnter(host, ibs, journal, accessList, m)
    IN  /\ ibs' = e.ibs
        /\ journal' = e.journal
        /\ accessList' = e.accessList
        /\ IF e.next = "return"
           THEN /\ result' = e.result
                /\ last' = Done(m, "create", e.recipient, "none", NoOutcome,
                                ibs, accessList, journal)
                /\ stack' = Calling
           ELSE /\ stack' = Append(Calling,
                                   Frame([m EXCEPT !.recipient = e.recipient], "create",
                                         m.kind, CreateCode(m), e.snapshot,
                                         ibs, accessList, journal))
                /\ last' = [op |-> "Execute"]
                /\ result' = result

\* HostImpl.Call, up to the point where it returns or the interpreter starts
Call(m) ==
    /\ Running
    /\ ~Top.called
    /\ Len(stack) <= MaxDepth
    /\ IF IsHandleCallsKind(m.kind) THEN CallHandleCalls(m) ELSE CallCreate(m)
    /\ UNCHANGED <<host, committed, steps>>
    /\ UNCHANGED otherVars

\* the running code takes the result of the message it sent and goes on; it
\* may then send another
Resume ==
    /\ Running
    /\ Top.called
    /\ steps < MaxSteps
    /\ stack' = [stack EXCEPT ![Len(stack)].called = FALSE]
    /\ steps' = steps + 1
    /\ UNCHANGED <<host, ibs, committed, journal, accessList, result, last>>
    /\ UNCHANGED otherVars

\* Execute returns: the rest of handleCalls or Call, and the result handed to
\* the calling frame
Return ==
    /\ Len(stack) > 1
    /\ \E out \in ExecuteOutcomes(Top.path, Top.code, Top.m.gas) :
          /\ Top.halted => (out.err = ErrNil /\ out.output = EmptyBytes)
          /\ LET x == IF Top.path = "calls"
                      THEN HandleCallsExit(host, ibs, journal, Top.snapshot, out)
                      ELSE CallExit(host, ibs, journal, Top.snapshot, Top.m.recipient, out)
             IN  /\ ibs' = x.ibs
                 /\ journal' = x.journal
                 /\ result' = x.result
                 /\ last' = Done(Top.m, Top.path, Top.m.recipient,
                                 IF Top.code.len = 0 THEN "empty" ELSE "interp", out,
                                 Top.pre, Top.preAccess, Top.preJournal)
                 /\ accessList' = IF x.journal # journal
                                  THEN RevertedAccessList(accessList, Top.preAccess)
                                  ELSE accessList
    /\ stack' = SubSeq(stack, 1, Len(stack) - 1)
    /\ UNCHANGED <<host, committed, steps>>
    /\ UNCHANGED otherVars

(***************************************************************************)
(* Specifications.  Each runs the same host on the part of its input space *)
(* that one family of operations reads.                                    *)
(***************************************************************************)
AllSlots == [Keys -> SlotValues]
ZeroSlots == {[k \in Keys |-> 0]}

\* SetStorage: the code of the transaction's frame writes its own slots
InitStorage ==
    InitWith({NewEvmOneHost(RulesAt(Cancun, FALSE), FALSE, FALSE)},
             {FALSE}, {"absent"}, {1}, AllSlots)
NextStorage == \E key \in Keys, value \in SlotValues : SetStorage(key, value)
SpecStorage == InitStorage /\ [][NextStorage]_vars

\* message calls: handleCalls reads IsSpuriousDragon, RestoreState and bailout;
\* a StaticCall, which Call keeps, also reads IsBerlin
InitCalls ==
    InitWith({NewEvmOneHost(RulesAt(l, FALSE), r, b) :
                l \in {Homestead, Berlin}, r \in BOOLEAN, b \in BOOLEAN},
             BOOLEAN, {"absent"}, {1, MaxNonce}, ZeroSlots)
NextCalls ==
    \/ Len(stack) <= ShallowDepth /\ \E m \in Messages : m.kind \in MessageCallKinds /\ Call(m)
    \/ Len(stack) > 1 /\ SetStorage(0, MaxSlotValue)
    \/ Return
SpecCalls == InitCalls /\ [][NextCalls]_vars

\* creations: Call reads the rules up to Shanghai and IsAura
InitCreate ==
    InitWith({NewEvmOneHost(RulesAt(l, a), FALSE, FALSE) :
                l \in {Frontier, Homestead, SpuriousDragon, Berlin, London, Shanghai},
                a \in BOOLEAN},
             {FALSE}, Occupancy, {1, MaxNonce}, ZeroSlots)
NextCreate ==
    \/ Len(stack) <= ShallowDepth /\ \E m \in Messages : m.kind \in CreationKinds /\ Call(m)
    \/ Len(stack) > 1 /\ SetStorage(0, MaxSlotValue)
    \/ Return
SpecCreate == InitCreate /\ [][NextCreate]_vars

\* Selfdestruct, by the transaction's frame and by the init code of an account
\* created in the transaction
InitSelfdestruct ==
    InitWith({NewEvmOneHost(RulesAt(l, FALSE), FALSE, FALSE) :
                l \in {Frontier, Shanghai, Cancun, Prague}},
             BOOLEAN, {"absent", "balance"}, {1}, ZeroSlots)
NextSelfdestruct ==
    \/ Len(stack) <= ShallowDepth /\ \E m \in Messages : m.kind = "Create" /\ Call(m)
    \/ \E beneficiary \in {ContractAddr, FreshAddr, Self} : Selfdestruct(beneficiary)
    \/ Return
SpecSelfdestruct == InitSelfdestruct /\ [][NextSelfdestruct]_vars

\* the access list: creations under the rules before and after Berlin, whose
\* init code and whose sender ask for addresses and slots
InitAccess ==
    InitWith({NewEvmOneHost(RulesAt(l, FALSE), FALSE, FALSE) : l \in {Homestead, Berlin}},
             {FALSE}, {"absent", "nonce"}, {1}, ZeroSlots)
NextAccess ==
    \/ Len(stack) <= ShallowDepth /\ \E m \in Messages : m.kind \in {"Create", "Create2"} /\ Call(m)
    \/ \E addr \in AccessTargets : AccessAccount(addr)
    \/ \E addr \in AccessTargets, key \in Keys : AccessStorage(addr, key)
    \/ Return
SpecAccess == InitAccess /\ [][NextAccess]_vars

\* every kind of message, under the rules that decide how a result is formed
\* (IsHomestead for code-store gas, IsSpuriousDragon and IsLondon for the
\* checks of the code)
InitDispatch ==
    InitWith({NewEvmOneHost(RulesAt(l, FALSE), FALSE, FALSE) :
                l \in {Frontier, Homestead, London}},
             {FALSE}, {"absent"}, {1}, ZeroSlots)
NextDispatch ==
    \/ Len(stack) <= ShallowDepth /\ \E m \in Messages : Call(m)
    \/ Return
SpecDispatch == InitDispatch /\ [][NextDispatch]_vars

\* GetBlockHash, asked by the transaction's code, by called code and by init
\* code; after a panic nothing runs
InitBlockHash ==
    InitWith({NewEvmOneHost(RulesAt(l, FALSE), FALSE, FALSE) : l \in {Homestead, Cancun}},
             {TRUE}, {"absent"}, {1}, ZeroSlots)
NextBlockHash ==
    \/ \E number \in 0 .. MaxBlockNumber : GetBlockHash(number)
    \/ ~Panicked /\ Len(stack) <= ShallowDepth /\ \E m \in Messages : m.kind \in {"Call", "Create"} /\ Call(m)
    \/ ~Panicked /\ Return
SpecBlockHash == InitBlockHash /\ [][NextBlockHash]_vars

\* the transaction context, asked by the transaction's code and by the code
\* it calls, in blocks with and without each of the optional fields
InitTxContext ==
    InitWith({WithBlockContext(NewEvmOneHost(RulesAt(l, FALSE), FALSE, FALSE), c) :
                l \in {Homestead, Cancun}, c \in BlockContexts},
             {TRUE}, {"absent"}, {1}, ZeroSlots)
NextTxContext ==
    \/ GetTxContext
    \/ ~TxContextPanicked /\ Len(stack) <= ShallowDepth
         /\ \E m \in Messages : m.kind = "Call" /\ m.value = 0 /\ Call(m)
    \/ ~TxContextPanicked /\ Return
SpecTxContext == InitTxContext /\ [][NextTxContext]_vars

\* logs, emitted by the transaction's code and by the code it calls
InitLog ==
    InitWith({NewEvmOneHost(RulesAt(Cancun, FALSE), FALSE, FALSE)},
             {TRUE}, {"absent"}, {1}, ZeroSlots)
NextLog ==
    \/ \E topics \in Topics, data \in LogData : EmitLog(topics, data)
    \/ Len(stack) <= ShallowDepth /\ \E m \in Messages : m.kind = "Call" /\ m.value = 0 /\ Call(m)
    \/ Return
SpecLog == InitLog /\ [][NextLog]_vars

\* nesting: the code a message runs sends a message of its own; calls inside
\* calls, creations inside calls, calls inside creations
NestingMessages ==
    {m \in Messages :
        /\ m.kind \in {"Call", "DelegateCall", "Create"}
        /\ m.value \in {0, 1}
        /\ m.kind = "Create" => m.input = InitCodes[2]
        /\ m.kind # "Create" => m.codeAddress \in {ContractAddr, PrecompileAddr}}
InitNesting ==
    InitWith({NewEvmOneHost(RulesAt(Berlin, FALSE), r, FALSE) : r \in BOOLEAN},
             {TRUE}, {"absent"}, {1}, ZeroSlots)
NextNesting ==
    \/ \E m \in NestingMessages : Call(m)
    \/ SetStorage(0, MaxSlotValue)
    \/ Return
SpecNesting == InitNesting /\ [][NextNesting]_vars

\* sequences: the transaction's code sends one creation after another
InitSequence ==
    InitWith({NewEvmOneHost(RulesAt(l, FALSE), FALSE, FALSE) : l \in {Frontier, Berlin}},
             {FALSE}, {"absent"}, {1}, ZeroSlots)
NextSequence ==
    \/ Len(stack) <= ShallowDepth
         /\ \E m \in Messages : m.kind \in {"Create", "Create2"} /\ m.salt = 0 /\ Call(m)
    \/ Resume
    \/ Return
SpecSequence == InitSequence /\ [][NextSequence]_vars

\* a host that is made and not used, while another program runs
HostAtRest ==
    InitHostWith({NewEvmOneHost(RulesAt(Frontier, FALSE), FALSE, FALSE)},
                 {FALSE}, {"absent"}, {1}, ZeroSlots)

\* cmd/commitment-prefix: processCommitmentFile on one file, the goroutine and
\* the consuming loop running side by side
InitCommitment ==
    /\ HostAtRest
    /\ NoBridge
    /\ NoBuilder
    /\ \E file \in Files : StartedOn(file)
NextCommitment ==
    \/ ExtractOpen
    \/ ExtractSkip
    \/ ExtractSend
    \/ ExtractReturn
    \/ ExtractorOffersError
    \/ ExtractorCloses
    \/ ConsumerRanges
    \/ ConsumerSelects
SpecCommitment == InitCommitment /\ [][NextCommitment]_vars

\* polygon/bridge: Run in its goroutine, one caller of ProcessNewBlocks, and a
\* context that may be cancelled.  The caller's goroutine is scheduled again
\* and again, so a step of Synchronize or of ProcessNewBlocks that can be
\* taken is taken; nothing makes Run, the event source or the context move.
InitBridge ==
    /\ HostAtRest
    /\ NoCommitment
    /\ NoBuilder
    /\ BridgeStarted
NextBridge ==
    \/ Cancel
    \/ RunPrepare
    \/ RunSelect
    \/ RunFetch
    \/ RunSleep
    \/ \E blocks \in BlockLists : ProcessNewBlocks(blocks)
    \/ SynchronizeSelect
    \/ SynchronizeLoadReady
    \/ SynchronizeLoadBlock
    \/ ProcessBlocks
SpecBridge ==
    /\ InitBridge
    /\ [][NextBridge]_vars
    /\ WF_vars(SynchronizeSelect)
    /\ WF_vars(SynchronizeLoadReady)
    /\ WF_vars(SynchronizeLoadBlock)
    /\ WF_vars(ProcessBlocks)

\* turbo/builder: goroutines calling AddBlockBuilt and BlockBuilt on one store
InitBuilder ==
    /\ HostAtRest
    /\ NoCommitment
    /\ NoBridge
    /\ StoreShared
NextBuilder ==
    \/ \E t \in Threads, block \in Built : AddBlockBuilt(t, block)
    \/ \E t \in Threads : BlockBuilt(t)
    \/ \E t \in Threads : Lock(t)
    \/ \E t \in Threads : StoreBlock(t)
    \/ \E t \in Threads : LoadBlock(t)
    \/ \E t \in Threads : Unlock(t)
SpecBuilder == InitBuilder /\ [][NextBuilder]_vars

(***************************************************************************)
(* Properties                                                              *)
(***************************************************************************)
\* the observable state of the backend: the answers to its balance,
\* nonce, code, storage and existence queries
AccountState(s) ==
    [exist |-> s.exist, balance |-> s.balance, nonce |-> s.nonce,
     code |-> s.code, storage |-> s.storage]

CalledWith(kinds) == last.op = "Call" /\ last.m.kind \in kinds

\* the table of the storage statuses, by the four cases of (dirty, restored)
StatusTable(original, current, new) ==
    CASE original = current /\ original # new ->
           (IF current = 0 THEN "StorageAdded"
            ELSE IF new = 0 THEN "StorageDeleted" ELSE "StorageModified")
      [] original # current /\ original # new ->
           (IF current = 0 /\ new # 0 THEN "StorageDeletedAdded"
            ELSE IF current # 0 /\ new = 0 THEN "StorageModifiedDeleted"
            ELSE "StorageAssigned")
      [] original # current /\ original = new ->
           (IF current = 0 THEN "StorageDeletedRestored"
            ELSE IF new = 0 THEN "StorageAddedDeleted" ELSE "StorageModifiedRestored")
      [] original = current /\ original = new -> "StorageAssigned"

\* C1: whatever the committed value, the current value and the new value of a
\* slot are, SetStorage returns the status the table gives for the three.
C1_StatusFollowsTable ==
    last.op = "SetStorage" =>
        last.status = StatusTable(committed[last.addr][last.key],
                                  GetState(last.pre, last.addr, last.key),
                                  last.value)

\* a write that restores the committed value of a slot changed before
C1_Witness ==
    /\ last.op = "SetStorage"
    /\ committed[last.addr][last.key] # GetState(last.pre, last.addr, last.key)
    /\ committed[last.addr][last.key] = last.value
    /\ last.value # 0
    /\ GetState(last.pre, last.addr, last.key) # 0
    /\ last.status = "StorageModifiedRestored"

\* C2: a message call whose code or precompile ran and that ends with an
\* error other than ErrExecutionReverted returns gasLeft 0; one that ends with
\* ErrExecutionReverted returns the gas the run handed back.
C2_FaultConsumesAllGas ==
    (CalledWith(MessageCallKinds) /\ last.ran \in {"interp", "precompile"}) =>
        /\ result.err \notin {ErrNil, ErrExecutionReverted} => result.gasLeft = 0
        /\ result.err = ErrExecutionReverted => result.gasLeft = last.out.gasLeft

\* C3: a StaticCall is dispatched as a message call: the sender's nonce, the
\* access list, the account and the code at the recipient stay as they were,
\* and neither creation error is returned.
C3_StaticCallIsMessageCall ==
    CalledWith({"StaticCall"}) =>
        /\ GetNonce(ibs, last.m.sender) = GetNonce(last.pre, last.m.sender)
        /\ accessList = last.preAccess
        /\ Exist(ibs, last.m.recipient) = Exist(last.pre, last.m.recipient)
        /\ GetCode(ibs, last.m.recipient) = GetCode(last.pre, last.m.recipient)
        /\ result.err \notin {ErrNonceUintOverflow, ErrContractAddressCollision}

\* the address a creation derives, from the state before the call
DerivedFor(m, pre) ==
    IF m.kind = "Create" THEN CreateAddress(m.sender, pre.nonce[m.sender])
    ELSE CreateAddress2(m.sender, m.salt, Keccak256Hash(m.input))

\* C4: a Create or Create2 that succeeds returns the address it derived, where
\* the account was made, as the created address of its result.
C4_ReturnsCreatedAddress ==
    (CalledWith({"Create", "Create2"}) /\ result.err = ErrNil) =>
        /\ result.createAddr = last.recipient
        /\ result.createAddr = DerivedFor(last.m, last.pre)
        /\ Exist(ibs, result.createAddr)

\* C5: after a message call whose code or precompile ran and that ended with
\* an error, the backend answers every balance, nonce, code, storage and
\* existence query as it did when the call was dispatched.
C5_FailedCallRestoresState ==
    (CalledWith(MessageCallKinds) /\ last.ran \in {"interp", "precompile"}
     /\ result.err # ErrNil) =>
        AccountState(ibs) = AccountState(last.pre)

\* a Call that moved value to a precompile it had to make an account for, and
\* failed
C5_Witness ==
    /\ CalledWith({"Call"})
    /\ last.ran = "precompile"
    /\ result.err = ErrFault
    /\ last.m.value = 1
    /\ ~Exist(last.pre, last.m.recipient)
    /\ CanTransfer(last.pre, last.m.sender, last.m.value)

\* the code-size limit is in force: EIP-170, which a legacy (Aura) chain has
\* only from EIP-3860 on
SizeLimitEnabled(rules) ==
    rules.IsSpuriousDragon /\ (~rules.IsAura \/ rules.IsShanghai)

\* the state a creation that passed its prechecks has when it takes its
\* snapshot: the state before the call with the sender's nonce one higher
AtCreateSnapshot(m, pre) ==
    [AccountState(pre) EXCEPT !.nonce[m.sender] = @ + 1]

\* a creation whose init code ran and handed back more than MaxCodeSize bytes
\* while the limit is in force
OversizedCreate ==
    /\ CalledWith({"Create", "Create2"})
    /\ last.ran = "interp"
    /\ last.out.err = ErrNil
    /\ last.out.output.len > MaxCodeSize
    /\ SizeLimitEnabled(host.rules)

\* C6 as stated: the oversized creation fails with ErrMaxCodeSizeExceeded, and
\* afterwards there is no account and no code at the derived recipient and the
\* state is the one of the snapshot.
C6_OversizedLeavesNoAccount ==
    OversizedCreate =>
        /\ result.err = ErrMaxCodeSizeExceeded
        /\ ~Exist(ibs, last.recipient)
        /\ GetCode(ibs, last.recipient) = EmptyBytes
        /\ AccountState(ibs) = AtCreateSnapshot(last.m, last.pre)

\* C6, amended: the oversized creation fails with ErrMaxCodeSizeExceeded, and
\* afterwards the state is the one of the snapshot: no code at the derived
\* recipient, the value back with the sender, and an account at the recipient
\* only if one was there before the call, with the balance it had.
C6_OversizedRevertsToSnapshot ==
    OversizedCreate =>
        /\ result.err = ErrMaxCodeSizeExceeded
        /\ GetCode(ibs, last.recipient) = EmptyBytes
        /\ Exist(ibs, last.recipient) = Exist(last.pre, last.recipient)
        /\ GetBalance(ibs, last.recipient) = GetBalance(last.pre, last.recipient)
        /\ GetBalance(ibs, last.m.sender) = GetBalance(last.pre, last.m.sender)
        /\ AccountState(ibs) = AtCreateSnapshot(last.m, last.pre)

\* an oversized creation that had moved value to an address that held a
\* balance before, and whose init code had written storage
C6_Witness ==
    /\ OversizedCreate
    /\ last.m.value = 1
    /\ Exist(last.pre, last.recipient)
    /\ steps > 0
    /\ result.err = ErrMaxCodeSizeExceeded

\* the prechecks of a creation, on the state before the call
PassesPrechecks(m, pre) ==
    CanTransfer(pre, m.sender, m.value) /\ pre.nonce[m.sender] < MaxNonce
\* an account with a nonce or with code at an address
Occupied(pre, addr) == pre.nonce[addr] # 0 \/ pre.code[addr].len > 0

\* C7 as stated: a Create or Create2 whose derived recipient has a nonce or
\* code fails with ErrContractAddressCollision.
C7_OccupiedAlwaysCollides ==
    (CalledWith({"Create", "Create2"})
     /\ Occupied(last.pre, DerivedFor(last.m, last.pre))) =>
        result.err = ErrContractAddressCollision

\* C7, amended: a Create or Create2 fails with ErrContractAddressCollision
\* exactly when it passes the balance and nonce prechecks and its derived
\* recipient has a nonce or code; then the sender's nonce is one higher, no
\* snapshot was taken or reverted, nothing ran, gasLeft is the gas supplied
\* and no other account state changed.
C7_CollisionAfterPrechecks ==
    CalledWith({"Create", "Create2"}) =>
        /\ result.err = ErrContractAddressCollision
             <=> (PassesPrechecks(last.m, last.pre)
                  /\ Occupied(last.pre, DerivedFor(last.m, last.pre)))
        /\ result.err = ErrContractAddressCollision =>
             /\ GetNonce(ibs, last.m.sender) = GetNonce(last.pre, last.m.sender) + 1
             /\ AccountState(ibs) = AtCreateSnapshot(last.m, last.pre)
             /\ journal = last.preJournal
             /\ last.ran = "none"
             /\ result.gasLeft = last.m.gas

\* a collision with an account that has code and no nonce
C7_Witness ==
    /\ CalledWith({"Create", "Create2"})
    /\ result.err = ErrContractAddressCollision
    /\ last.pre.nonce[last.recipient] = 0
    /\ last.pre.code[last.recipient].len > 0
    /\ last.m.value = 1

\* C8 as stated: a creation whose sender's nonce is the largest value fails
\* with ErrNonceUintOverflow and changes nothing.
C8_MaxNonceAlwaysOverflows ==
    (CalledWith(CreationKinds) /\ last.pre.nonce[last.m.sender] = MaxNonce) =>
        result.err = ErrNonceUintOverflow

\* C8, amended: a creation whose sender can afford the value and has the
\* largest nonce fails with ErrNonceUintOverflow; the nonce, the access list,
\* the journal and every account are as before, and gasLeft is the gas
\* supplied.
C8_OverflowAfterBalanceCheck ==
    (CalledWith(CreationKinds) /\ last.pre.nonce[last.m.sender] = MaxNonce
     /\ CanTransfer(last.pre, last.m.sender, last.m.value)) =>
        /\ result.err = ErrNonceUintOverflow
        /\ ibs = last.pre
        /\ accessList = last.preAccess
        /\ journal = last.preJournal
        /\ last.ran = "none"
        /\ result.gasLeft = last.m.gas

\* a creation with value refused for its nonce under the access-list rules
C8_Witness ==
    /\ CalledWith(CreationKinds)
    /\ last.pre.nonce[last.m.sender] = MaxNonce
    /\ result.err = ErrNonceUintOverflow
    /\ last.m.value = 1
    /\ host.rules.IsBerlin

\* C9: under the EIP-161 rules a Call without value to a recipient that does
\* not exist and is no precompile makes no account, changes no account state
\* and returns success with empty output and all the gas.
C9_NoDustAccount ==
    (CalledWith({"Call"}) /\ host.rules.IsSpuriousDragon /\ last.m.value = 0
     /\ ~Exist(last.pre, last.m.recipient) /\ ~IsPrecompile(last.m.recipient)) =>
        /\ result.err = ErrNil
        /\ result.output = EmptyBytes
        /\ result.gasLeft = last.m.gas
        /\ ~Exist(ibs, last.m.recipient)
        /\ AccountState(ibs) = AccountState(last.pre)

C9_Witness ==
    /\ CalledWith({"Call"})
    /\ host.rules.IsSpuriousDragon
    /\ last.m.value = 0
    /\ last.m.recipient = FreshAddr
    /\ ~Exist(last.pre, FreshAddr)
    /\ result.err = ErrNil
    /\ result.gasLeft = TxGas

\* C10: from Cancun on, Selfdestruct towards another address moves the whole
\* balance to the beneficiary and marks the account destructed exactly when it
\* was created in this transaction; an account that was not stays in place and
\* the call returns false.
C10_Selfdestruct6780 ==
    (last.op = "Selfdestruct" /\ (host.rules.IsCancun \/ host.rules.IsPrague)
     /\ last.beneficiary # last.addr) =>
        /\ GetBalance(ibs, last.addr) = 0
        /\ GetBalance(ibs, last.beneficiary)
             = GetBalance(last.pre, last.beneficiary) + GetBalance(last.pre, last.addr)
        /\ HasSelfdestructed(ibs, last.addr) <=> last.pre.newlyCreated[last.addr]
        /\ last.ret = HasSelfdestructed(ibs, last.addr)
        /\ ~last.pre.newlyCreated[last.addr] =>
             (Exist(ibs, last.addr) /\ last.ret = FALSE)

\* the init code of an account created with value in this transaction
\* destructs the account
C10_Witness ==
    /\ last.op = "Selfdestruct"
    /\ host.rules.IsCancun
    /\ last.beneficiary # last.addr
    /\ last.pre.newlyCreated[last.addr]
    /\ GetBalance(last.pre, last.addr) = 1
    /\ last.ret = TRUE

\* C11: before Cancun, Selfdestruct on an existing account marks the account
\* destructed, leaves it with balance 0 and returns true, whether or not the
\* account was created in this transaction; a beneficiary other than the
\* account itself ends with its balance raised by the whole balance the
\* account held.
C11_LegacySelfdestruct ==
    (last.op = "Selfdestruct" /\ host.rev < Cancun /\ Exist(last.pre, last.addr)) =>
        /\ HasSelfdestructed(ibs, last.addr)
        /\ GetBalance(ibs, last.addr) = 0
        /\ last.ret = TRUE
        /\ last.beneficiary # last.addr =>
             GetBalance(ibs, last.beneficiary)
               = GetBalance(last.pre, last.beneficiary) + GetBalance(last.pre, last.addr)

\* an account that was there before the transaction destructs itself towards
\* another address under a legacy revision
C11_Witness ==
    /\ last.op = "Selfdestruct"
    /\ host.rev < Cancun
    /\ ~last.pre.newlyCreated[last.addr]
    /\ GetBalance(last.pre, last.addr) = 1
    /\ last.beneficiary # last.addr
    /\ HasSelfdestructed(ibs, last.addr)
    /\ last.ret = TRUE

\* the init code of an account created in this transaction destructs the
\* account under a legacy revision
C11_WitnessCreated ==
    /\ last.op = "Selfdestruct"
    /\ host.rev < Cancun
    /\ last.pre.newlyCreated[last.addr]
    /\ GetBalance(last.pre, last.addr) > 0
    /\ last.ret = TRUE

\* a step that ends a creation with an error: the immediate return of Call or
\* the return of the init code
FailedCreateStep ==
    /\ last'.op = "Call"
    /\ last'.path = "create"
    /\ last'.m.kind \in {"Create", "Create2"}
    /\ result'.err # ErrNil
    /\ Len(stack') <= Len(stack)
    /\ stack' # stack

AccessStep(op) == steps' = steps + 1 /\ last'.op = op

\* C13: AccessAccount(addr) returns Cold when addr is not in the warm set and
\* Warm when it is, and leaves the set with addr added and nothing else
\* changed; AccessStorage(addr, key) does the same for the pair; no step takes
\* an entry out of either set.  So the first touch is Cold, every later one
\* Warm, and an address the creation path warmed is Warm.
C13_ColdThenWarm ==
    [][/\ accessList.addresses \subseteq accessList'.addresses
       /\ accessList.slots \subseteq accessList'.slots
       /\ AccessStep("AccessAccount") =>
            /\ last'.status = (IF last'.addr \in accessList.addresses
                               THEN WarmAccess ELSE ColdAccess)
            /\ accessList'.addresses = accessList.addresses \cup {last'.addr}
            /\ accessList'.slots = accessList.slots
       /\ AccessStep("AccessStorage") =>
            /\ last'.status = (IF <<last'.addr, last'.key>> \in accessList.slots
                               THEN WarmAccess ELSE ColdAccess)
            /\ accessList'.slots = accessList.slots \cup {<<last'.addr, last'.key>>}
            /\ accessList'.addresses = accessList.addresses]_vars

\* the only AccessAccount of the run asks about the recipient of a creation
\* that failed under Berlin, and is told Warm
C13_Witness ==
    /\ last.op = "AccessAccount"
    /\ steps = 1
    /\ last.status = WarmAccess
    /\ last.addr \in Derived
    /\ result.err # ErrNil
    /\ host.rules.IsBerlin

\* the second of two touches of the same address, or of the same slot
C13_WitnessRepeated ==
    /\ last.op \in {"AccessAccount", "AccessStorage"}
    /\ steps = 2
    /\ last.status = WarmAccess
    /\ accessList = last.preAccess
    /\ last.addr = FreshAddr

\* a Call with a value its sender cannot afford
UnaffordableCall ==
    /\ CalledWith({"Call"})
    /\ last.m.value # 0
    /\ ~CanTransfer(last.pre, last.m.sender, last.m.value)

\* C14: a Call with a nonzero value its sender cannot afford fails with
\* ErrInsufficientBalance when the host was made without bailout: gasLeft is
\* the gas supplied, no snapshot is taken, nothing runs and the backend is as
\* it was.  With bailout the Call does not fail with ErrInsufficientBalance: a
\* snapshot is taken and the precompile or the code at the recipient is
\* dispatched.  No balance is ever negative.
C14_InsufficientBalance ==
    /\ \A a \in Address : GetBalance(ibs, a) >= 0
    /\ (UnaffordableCall /\ ~host.bailout) =>
         /\ result.err = ErrInsufficientBalance
         /\ result.gasLeft = last.m.gas
         /\ journal = last.preJournal
         /\ last.ran = "none"
         /\ ibs = last.pre
    /\ (UnaffordableCall /\ host.bailout) =>
         /\ result.err # ErrInsufficientBalance
         /\ journal.acquired > last.preJournal.acquired
         /\ last.ran \in {"precompile", "empty", "interp"}

\* the Call is refused: the recipient did not exist and still does not
C14_Witness ==
    /\ UnaffordableCall
    /\ ~host.bailout
    /\ result.err = ErrInsufficientBalance
    /\ last.m.recipient = FreshAddr
    /\ ~Exist(last.pre, FreshAddr)
    /\ ~Exist(ibs, FreshAddr)

\* with bailout the same Call runs the code at its recipient
C14_WitnessBailout ==
    /\ UnaffordableCall
    /\ host.bailout
    /\ last.ran = "interp"
    /\ result.err = ErrNil

\* C15: whatever the kind of the message, and with the interpreter and the
\* precompiles handing back a gas value between 0 and the gas supplied, the
\* result of a dispatch has 0 <= gasLeft <= gas supplied.
C15_GasLeftInRange ==
    last.op = "Call" =>
        /\ (last.out.gasLeft >= 0 /\ last.out.gasLeft <= last.m.gas)
        /\ result.gasLeft >= 0
        /\ result.gasLeft <= last.m.gas

\* a creation that paid for the code it stored
C15_Witness ==
    /\ CalledWith({"Create", "Create2"})
    /\ result.err = ErrNil
    /\ last.out.output.len = 1
    /\ last.out.gasLeft = last.m.gas
    /\ result.gasLeft = last.m.gas - CreateDataGas
    /\ GetCode(ibs, last.recipient).len = 1

\* a creation whose init code left less gas than the code costs
C15_WitnessUnaffordable ==
    /\ CalledWith({"Create", "Create2"})
    /\ last.out.output.len = 1
    /\ last.out.gasLeft = 0
    /\ last.out.err = ErrNil
    /\ result.gasLeft = 0

\* C16: a call or create that ends with ErrExecutionReverted returns the
\* output of the interpreter; one that ends with any other error returns
\* empty output.
C16_OutputOnlyOnRevert ==
    last.op = "Call" =>
        /\ result.err = ErrExecutionReverted => result.output = last.out.output
        /\ result.err \notin {ErrNil, ErrExecutionReverted} =>
             result.output = EmptyBytes

\* C17: after SetStorage(addr, key, v), GetStorage(addr, key) returns v,
\* whatever the status returned; every other slot, the committed value of the
\* slot and every balance, nonce and code are as before.
C17_WriteIsUnconditional ==
    last.op = "SetStorage" =>
        /\ HostGetStorage(ibs, last.addr, last.key) = last.value
        /\ \A a \in Address, k \in Keys :
             (a # last.addr \/ k # last.key) =>
                 GetState(ibs, a, k) = GetState(last.pre, a, k)
        /\ committed[last.addr][last.key] = last.original
        /\ ibs.balance = last.pre.balance
        /\ ibs.nonce = last.pre.nonce
        /\ ibs.code = last.pre.code

\* a write classified Assigned that changes the value of the slot
C17_Witness ==
    /\ last.op = "SetStorage"
    /\ last.status = StorageAssigned
    /\ last.current # last.value
    /\ HostGetStorage(ibs, last.addr, last.key) = last.value
    /\ HostGetStorage(last.pre, last.addr, last.key) = last.current

\* a SetStorage that repeats, for the same slot, the value of the SetStorage
\* made just before it
RepeatedWrite ==
    /\ last.op = "SetStorage"
    /\ steps' = steps + 1
    /\ last'.op = "SetStorage"
    /\ last'.addr = last.addr
    /\ last'.key = last.key
    /\ last'.value = last.value

\* C18: a SetStorage that repeats the value of the SetStorage made just before
\* it for the same slot returns Assigned and leaves the slot, and the storage
\* as a whole, as it was, whatever the committed value of the slot.
C18_RepeatedWriteIsAssigned ==
    [][RepeatedWrite =>
          /\ last'.current = last'.value
          /\ last'.status = StorageAssigned
          /\ HostGetStorage(ibs', last'.addr, last'.key) = last.value
          /\ ibs'.storage = ibs.storage]_vars

\* the second of two writes of the same nonzero value to a slot whose
\* committed value is another nonzero value
C18_Witness ==
    /\ last.op = "SetStorage"
    /\ steps = 2
    /\ last.current = last.value
    /\ last.original # last.value
    /\ last.original # 0
    /\ last.value # 0
    /\ last.status = StorageAssigned
    /\ GetState(ibs, last.addr, 1 - last.key) = committed[last.addr][1 - last.key]

\* C19: the recipient of a Create2 is CreateAddress2 of the sender, the salt
\* and the hash of the init code, and Call derives the same address from the
\* same three inputs in every other backend state (another nonce or balance of
\* the sender, the state the call left) and for every other value and depth.
C19_Create2IsPure ==
    CalledWith({"Create2"}) =>
        /\ last.recipient = CreateAddress2(last.m.sender, last.m.salt,
                                           Keccak256Hash(last.m.input))
        /\ CreateRecipient(ibs, last.m) = last.recipient
        /\ \A n \in Nonces, b \in Values, v \in Values, d \in 0 .. MaxDepth :
             CreateRecipient([last.pre EXCEPT !.nonce[last.m.sender] = n,
                                              !.balance[last.m.sender] = b],
                             [last.m EXCEPT !.value = v, !.depth = d])
               = last.recipient

\* a Create2 with value that made its account, at an address other than the
\* one a Create would have derived
C19_Witness ==
    /\ CalledWith({"Create2"})
    /\ result.err = ErrNil
    /\ last.m.value = 1
    /\ last.m.salt = 1
    /\ Exist(ibs, last.recipient)
    /\ GetNonce(ibs, last.m.sender) # GetNonce(last.pre, last.m.sender)
    /\ last.recipient # CreateAddress(last.m.sender, GetNonce(last.pre, last.m.sender))

\* C20: GetBlockHash(number) hands a hash back to the running code for every
\* block number and does not end the process.
C20_GetBlockHashReturns ==
    last.op = "GetBlockHash" => ~last.panic

\* C21: EmitLog(addr, topics, data) appends one log to the logs of the
\* backend: its address is addr, its topics and data are the ones passed and
\* its block number is the current block; nothing else changes.
C21_LogOfEmittingContract ==
    last.op = "EmitLog" =>
        /\ Len(ibs.logs) = Len(last.pre.logs) + 1
        /\ SubSeq(ibs.logs, 1, Len(last.pre.logs)) = last.pre.logs
        /\ ibs.logs[Len(ibs.logs)].Address = last.addr
        /\ ibs.logs[Len(ibs.logs)].Topics = last.topics
        /\ ibs.logs[Len(ibs.logs)].Data = last.data
        /\ ibs.logs[Len(ibs.logs)].BlockNumber = BlockNumber
        /\ AccountState(ibs) = AccountState(last.pre)

\* the handles of a journal that a revert may still name
ValidIds(j) == {j.valid[i].id : i \in 1 .. Len(j.valid)}
RevertedIds(j) == {j.reverted[i] : i \in 1 .. Len(j.reverted)}

\* C22: however calls and creations nest, a step reverts at most one handle;
\* the handle was not reverted before and is still valid; it is the handle of
\* the frame that returns in this step, or one acquired in the same dispatch
\* when no frame was opened; every handle acquired after it is dropped with
\* it, and the handle of every frame that stays open remains valid.
C22_SnapshotDiscipline ==
    [][LET n == Len(journal.reverted)
       IN  /\ Len(journal'.reverted) \in {n, n + 1}
           /\ SubSeq(journal'.reverted, 1, n) = journal.reverted
           /\ \A k \in 2 .. Len(stack') :
                stack'[k].snapshot # 0 => stack'[k].snapshot \in ValidIds(journal')
           /\ Len(journal'.reverted) = n + 1 =>
                LET id == journal'.reverted[n + 1]
                IN  /\ id \notin RevertedIds(journal)
                    /\ \/ /\ Len(stack') < Len(stack)
                          /\ id = Top.snapshot
                          /\ id \in ValidIds(journal)
                       \/ /\ Len(stack') = Len(stack)
                          /\ id = journal.next
                    /\ \A h \in ValidIds(journal') : h < id]_vars

\* a frame that failed and reverted inside a frame that then failed and
\* reverted as well
C22_Witness ==
    /\ Len(stack) = 1
    /\ Len(journal.reverted) = 2
    /\ journal.reverted[1] > journal.reverted[2]
    /\ journal.acquired = 2
    /\ last.op = "Call"
    /\ result.err # ErrNil

\* C23: when a nested call or creation ends with an error, the backend is in
\* the state the enclosing frame had made when it sent the message (for a
\* creation that passed its prechecks, with the sender's nonce one higher):
\* the storage the enclosing frame wrote and the value it received are in
\* place.  The enclosing frame is the executing frame again, has the error as
\* the result of its call, has not halted, and its own snapshot is still valid.
C23_ErrorsAreLocal ==
    (last.op = "Call" /\ result.err # ErrNil) =>
        /\ AccountState(ibs)
             = (IF last.path = "create"
                   /\ result.err \notin {ErrInsufficientBalance, ErrNonceUintOverflow}
                THEN AtCreateSnapshot(last.m, last.pre)
                ELSE AccountState(last.pre))
        /\ Len(stack) = last.m.depth
        /\ Self = (IF last.m.kind = "DelegateCall" THEN last.m.recipient
                   ELSE last.m.sender)
        /\ Top.called
        /\ ~Top.halted
        /\ Top.snapshot # 0 => Top.snapshot \in ValidIds(journal)

\* a called contract that received value and wrote its storage, then sent
\* its balance to a precompile that failed
C23_Witness ==
    /\ last.op = "Call"
    /\ result.err = ErrFault
    /\ Len(stack) = 2
    /\ Top.m.kind = "Call"
    /\ Self = ContractAddr
    /\ last.m.value = 1
    /\ ~Exist(last.pre, last.m.recipient)
    /\ GetState(ibs, ContractAddr, 0) = MaxSlotValue
    /\ GetBalance(ibs, ContractAddr) = 1
    /\ GetBalance(ibs, SelfAddr) = 0
    /\ Running

\* the code a delegate call runs wrote storage and made a creation whose
\* init code wrote storage and failed
C23_WitnessCreate ==
    /\ CalledWith({"Create"})
    /\ last.ran = "interp"
    /\ result.err # ErrNil
    /\ Len(stack) = 2
    /\ steps = 2
    /\ GetState(ibs, SelfAddr, 0) = MaxSlotValue
    /\ GetState(ibs, last.recipient, 0) = 0
    /\ ~Exist(ibs, last.recipient)

\* a Create or Create2 that passed its prechecks, ran its init code and ended
\* with an error
FaultedCreate ==
    /\ CalledWith({"Create", "Create2"})
    /\ last.ran = "interp"
    /\ result.err # ErrNil

\* the access list a creation that passed its prechecks leaves
WarmedByCreate ==
    [last.preAccess EXCEPT
        !.addresses = IF host.rules.IsBerlin THEN @ \cup {last.recipient} ELSE @]

\* C24 as stated: after a creation that passed the prechecks and failed, the
\* state is the one before the call with the sender's nonce one higher and,
\* under Berlin, the recipient warm; no account exists at the recipient, the
\* value is back with the sender and the storage the init code wrote is gone.
C24_FailedCreateLeavesNoAccount ==
    FaultedCreate =>
        /\ AccountState(ibs) = AtCreateSnapshot(last.m, last.pre)
        /\ accessList = WarmedByCreate
        /\ ~Exist(ibs, last.recipient)
        /\ GetBalance(ibs, last.m.sender) = GetBalance(last.pre, last.m.sender)
        /\ \A k \in Keys : GetState(ibs, last.recipient, k) = 0

\* C24, amended: after a creation that passed the prechecks and failed, the
\* state is the one before the call with the sender's nonce one higher and,
\* under Berlin, the recipient warm; an account exists at the recipient only
\* if one was there before the call, with the balance it had and neither
\* nonce nor code; the value is back with the sender and the storage the init
\* code wrote is gone.
C24_FailedCreateRevertsToSnapshot ==
    FaultedCreate =>
        /\ AccountState(ibs) = AtCreateSnapshot(last.m, last.pre)
        /\ accessList = WarmedByCreate
        /\ Exist(ibs, last.recipient) = Exist(last.pre, last.recipient)
        /\ GetBalance(ibs, last.recipient) = GetBalance(last.pre, last.recipient)
        /\ GetNonce(ibs, last.recipient) = 0
        /\ GetCode(ibs, last.recipient) = EmptyBytes
        /\ GetBalance(ibs, last.m.sender) = GetBalance(last.pre, last.m.sender)
        /\ \A k \in Keys : GetState(ibs, last.recipient, k) = 0

\* a creation with value under London whose init code wrote storage and
\* handed back code with the forbidden first byte
C24_Witness ==
    /\ FaultedCreate
    /\ result.err = ErrInvalidCode
    /\ last.m.value = 1
    /\ steps > 0
    /\ ~Exist(last.pre, last.recipient)
    /\ ~Exist(ibs, last.recipient)
    /\ last.recipient \in accessList.addresses

\* C25: under Berlin a creation that passes the balance and nonce prechecks
\* leaves its recipient warm, whether it then collides, fails and is reverted,
\* or succeeds; at a collision the nonce of the sender is already one higher
\* and no snapshot was acquired, and while the init code runs the recipient
\* is warm.  Before Berlin, and when a precheck fails, a creation leaves the
\* access list as it was.
C25_WarmBeforeCollisionCheck ==
    /\ CalledWith(CreationKinds) =>
         /\ accessList
              = (IF result.err \in {ErrInsufficientBalance, ErrNonceUintOverflow}
                 THEN last.preAccess ELSE WarmedByCreate)
         /\ ~host.rules.IsBerlin => accessList = last.preAccess
         /\ (host.rules.IsBerlin /\ result.err = ErrContractAddressCollision) =>
              /\ last.recipient \in accessList.addresses
              /\ GetNonce(ibs, last.m.sender) = GetNonce(last.pre, last.m.sender) + 1
              /\ journal = last.preJournal
         /\ (host.rules.IsBerlin /\ journal.reverted # last.preJournal.reverted) =>
              last.recipient \in accessList.addresses
    /\ (Len(stack) > 1 /\ Top.path = "create" /\ host.rules.IsBerlin) =>
         Top.m.recipient \in accessList.addresses

\* a collision under Berlin: the recipient, cold before, is warm
C25_Witness ==
    /\ CalledWith({"Create", "Create2"})
    /\ host.rules.IsBerlin
    /\ result.err = ErrContractAddressCollision
    /\ last.recipient \notin last.preAccess.addresses
    /\ last.recipient \in accessList.addresses
    /\ journal.acquired = 0

\* a creation refused for its balance under Berlin: nothing is warm
C25_WitnessPrecheck ==
    /\ CalledWith({"Create", "Create2"})
    /\ host.rules.IsBerlin
    /\ result.err = ErrInsufficientBalance
    /\ accessList.addresses = {}

\* a Create or Create2 that returned success
SuccessfulCreate == CalledWith({"Create", "Create2"}) /\ result.err = ErrNil

\* what every successful creation leaves: the account at the recipient with
\* the nonce the rules give it, the value moved, the sender's nonce one higher
CreatedAccount ==
    /\ Exist(ibs, last.recipient)
    /\ GetNonce(ibs, last.recipient) = (IF host.rules.IsSpuriousDragon THEN 1 ELSE 0)
    /\ GetBalance(ibs, last.recipient)
         = GetBalance(last.pre, last.recipient) + last.m.value
    /\ GetBalance(ibs, last.m.sender)
         = GetBalance(last.pre, last.m.sender) - last.m.value
    /\ GetNonce(ibs, last.m.sender) = GetNonce(last.pre, last.m.sender) + 1

\* C26 as stated: a successful creation leaves the account, with the output
\* of the interpreter as its code, and returns the interpreter's gasLeft less
\* the cost of storing the code.
C26_SuccessStoresOutput ==
    SuccessfulCreate =>
        /\ CreatedAccount
        /\ GetCode(ibs, last.recipient) = last.out.output
        /\ result.gasLeft = last.out.gasLeft - last.out.output.len * CreateDataGas

\* C26, amended: a successful creation leaves the account; when the gas the
\* interpreter left covers the cost of storing the output, the code of the
\* account is the output and the cost is deducted; otherwise (a success only
\* before Homestead) the account has no code and the gas is not reduced.
C26_SuccessStoresAffordableOutput ==
    SuccessfulCreate =>
        /\ CreatedAccount
        /\ last.out.gasLeft >= last.out.output.len * CreateDataGas =>
             /\ GetCode(ibs, last.recipient) = last.out.output
             /\ result.gasLeft
                  = last.out.gasLeft - last.out.output.len * CreateDataGas
        /\ last.out.gasLeft < last.out.output.len * CreateDataGas =>
             /\ ~host.rules.IsHomestead
             /\ GetCode(ibs, last.recipient) = EmptyBytes
             /\ result.gasLeft = last.out.gasLeft

\* a creation with value under the rules that start the account at nonce 1,
\* towards an address that held a balance: the code is stored and paid for
C26_Witness ==
    /\ SuccessfulCreate
    /\ host.rules.IsSpuriousDragon
    /\ last.m.value = 1
    /\ last.out.output.len = 1
    /\ GetCode(ibs, last.recipient) = last.out.output
    /\ result.gasLeft = last.m.gas - CreateDataGas
    /\ GetBalance(ibs, last.recipient) = 2
    /\ GetNonce(ibs, last.recipient) = 1

\* a creation whose init code ran and succeeded, leaving less gas than the
\* storage of its output costs
UnaffordableCode ==
    /\ CalledWith({"Create", "Create2"})
    /\ last.ran = "interp"
    /\ last.out.err = ErrNil
    /\ last.out.gasLeft < last.out.output.len * CreateDataGas

\* the output passes the size check and the prefix check
PassesCodeChecks(rules, output) ==
    /\ ~(SizeLimitEnabled(rules) /\ output.len > MaxCodeSize)
    /\ ~(rules.IsLondon /\ output.len >= 1 /\ output.first = ByteEF)

\* what C27 says of the two rule sets
CodeStoreOutcome ==
    IF host.rules.IsHomestead
    THEN /\ result.err = ErrCodeStoreOutOfGas
         /\ AccountState(ibs) = AtCreateSnapshot(last.m, last.pre)
         /\ Len(journal.reverted) = Len(last.preJournal.reverted) + 1
    ELSE /\ result.err = ErrNil
         /\ result.gasLeft = last.out.gasLeft
         /\ journal.reverted = last.preJournal.reverted
         /\ Exist(ibs, last.recipient)
         /\ GetCode(ibs, last.recipient) = EmptyBytes

\* C27 as stated: when the init code succeeds but leaves less gas than the
\* code costs, the creation fails with ErrCodeStoreOutOfGas and is reverted
\* from Homestead on; before, it succeeds with no code stored, the gas not
\* reduced, no revert, and the account in place with empty code.
C27_CodeStoreOutOfGas == UnaffordableCode => CodeStoreOutcome

\* C27, amended: the same, for an output that passes the size check and the
\* prefix check, which come first.
C27_CodeStoreOutOfGasAfterChecks ==
    (UnaffordableCode /\ PassesCodeChecks(host.rules, last.out.output)) =>
        CodeStoreOutcome

\* before Homestead: the creation with value succeeds and leaves an account
\* without code
C27_Witness ==
    /\ UnaffordableCode
    /\ ~host.rules.IsHomestead
    /\ result.err = ErrNil
    /\ last.m.value = 1
    /\ GetBalance(ibs, last.recipient) >= 1
    /\ GetCode(ibs, last.recipient) = EmptyBytes
    /\ last.out.output.len = 1

\* from Homestead on: the creation fails and is reverted
C27_WitnessHomestead ==
    /\ UnaffordableCode
    /\ host.rules.IsHomestead
    /\ result.err = ErrCodeStoreOutOfGas
    /\ ~Exist(ibs, last.recipient)

\* a creation whose init code ran and succeeded
RanCreate ==
    /\ CalledWith({"Create", "Create2"})
    /\ last.ran = "interp"
    /\ last.out.err = ErrNil

\* the output of the init code starts with 0xEF
ForbiddenPrefix == last.out.output.len >= 1 /\ last.out.output.first = ByteEF

\* no code stored, and the state back at the snapshot
RejectedCode ==
    /\ GetCode(ibs, last.recipient) = EmptyBytes
    /\ AccountState(ibs) = AtCreateSnapshot(last.m, last.pre)
    /\ Len(journal.reverted) = Len(last.preJournal.reverted) + 1

\* C28 as stated: under London a creation whose output starts with 0xEF is
\* rejected, stores no code and is reverted; the error is ErrInvalidCode, or
\* ErrMaxCodeSizeExceeded when the output is oversized as well; before London,
\* or for empty output, no creation fails with ErrInvalidCode.
C28_ForbiddenPrefix ==
    /\ (RanCreate /\ host.rules.IsLondon /\ ForbiddenPrefix) =>
         /\ result.err = (IF last.out.output.len > MaxCodeSize
                          THEN ErrMaxCodeSizeExceeded ELSE ErrInvalidCode)
         /\ RejectedCode
    /\ (CalledWith(CreationKinds)
        /\ (~host.rules.IsLondon \/ last.out.output.len = 0)) =>
         result.err # ErrInvalidCode

\* C28, amended: the same, with ErrMaxCodeSizeExceeded reported for oversized
\* output only where the size check is in force; on a legacy (Aura) chain
\* without EIP-3860 oversized output that starts with 0xEF is rejected with
\* ErrInvalidCode.
C28_ForbiddenPrefixAfterSizeCheck ==
    /\ (RanCreate /\ host.rules.IsLondon /\ ForbiddenPrefix) =>
         /\ result.err = (IF last.out.output.len > MaxCodeSize
                             /\ SizeLimitEnabled(host.rules)
                          THEN ErrMaxCodeSizeExceeded ELSE ErrInvalidCode)
         /\ RejectedCode
    /\ (CalledWith(CreationKinds)
        /\ (~host.rules.IsLondon \/ last.out.output.len = 0)) =>
         result.err # ErrInvalidCode

\* one byte 0xEF under London, from init code that wrote storage
C28_Witness ==
    /\ RanCreate
    /\ host.rules.IsLondon
    /\ last.out.output = Bytes(1, ByteEF)
    /\ result.err = ErrInvalidCode
    /\ steps > 0
    /\ last.m.value = 1

\* one byte 0xEF before London: stored as code
C28_WitnessBeforeLondon ==
    /\ RanCreate
    /\ ~host.rules.IsLondon
    /\ result.err = ErrNil
    /\ GetCode(ibs, last.recipient) = Bytes(1, ByteEF)

\* C29: a creation whose init code succeeds is rejected with
\* ErrMaxCodeSizeExceeded exactly when its output is longer than MaxCodeSize,
\* the Spurious Dragon rule is active and the chain is not a legacy (Aura)
\* chain or has EIP-3860; on a legacy chain without EIP-3860, and before
\* Spurious Dragon, no output length is rejected by the size check.
C29_SizeLimitRuleSet ==
    /\ RanCreate =>
         (result.err = ErrMaxCodeSizeExceeded
            <=> /\ last.out.output.len > MaxCodeSize
                /\ host.rules.IsSpuriousDragon
                /\ (~host.rules.IsAura \/ HasEip3860(host.rules)))
    /\ (CalledWith(CreationKinds) /\ ~RanCreate) =>
         result.err # ErrMaxCodeSizeExceeded

\* a legacy chain under Spurious Dragon without EIP-3860 stores oversized code
C29_Witness ==
    /\ RanCreate
    /\ host.rules.IsAura
    /\ host.rules.IsSpuriousDragon
    /\ ~HasEip3860(host.rules)
    /\ last.out.output.len > MaxCodeSize
    /\ result.err = ErrNil
    /\ GetCode(ibs, last.recipient).len > MaxCodeSize

\* a legacy chain with EIP-3860 rejects it
C29_WitnessShanghai ==
    /\ RanCreate
    /\ host.rules.IsAura
    /\ HasEip3860(host.rules)
    /\ result.err = ErrMaxCodeSizeExceeded

\* C30: a creation whose sender holds less than the value fails with
\* ErrInsufficientBalance, whatever the sender's nonce, its largest value
\* included; the backend, the access list and the journal are as before,
\* nothing ran, and gasLeft is the gas supplied.
C30_BalanceBeforeNonce ==
    (CalledWith(CreationKinds)
     /\ GetBalance(last.pre, last.m.sender) < last.m.value) =>
        /\ result.err = ErrInsufficientBalance
        /\ ibs = last.pre
        /\ accessList = last.preAccess
        /\ journal = last.preJournal
        /\ last.ran = "none"
        /\ result.gasLeft = last.m.gas

\* a sender at the largest nonce that cannot afford the value, under Berlin
C30_Witness ==
    /\ CalledWith(CreationKinds)
    /\ GetBalance(last.pre, last.m.sender) < last.m.value
    /\ GetNonce(last.pre, last.m.sender) = MaxNonce
    /\ host.rules.IsBerlin
    /\ result.err = ErrInsufficientBalance
    /\ GetNonce(ibs, last.m.sender) = MaxNonce

\* the message dispatched in a step, and the recipient Call resolved for it
DispatchedMessage ==
    IF Len(stack') > Len(stack) THEN stack'[Len(stack')].m ELSE last'.m
DispatchedRecipient ==
    IF Len(stack') > Len(stack) THEN stack'[Len(stack')].m.recipient
    ELSE last'.recipient

\* a step that dispatches a Create of the sender whose Create was the last
\* message, and succeeded
ConsecutiveCreate ==
    /\ CalledWith({"Create"})
    /\ result.err = ErrNil
    /\ Len(stack') >= Len(stack)
    /\ ~Top.called
    /\ stack'[Len(stack)].called
    /\ DispatchedMessage.kind = "Create"
    /\ DispatchedMessage.sender = last.m.sender

\* C31: a Create derives its recipient from the sender and the nonce the
\* sender had before the call; the Create that follows a successful one uses
\* the next nonce, derives another recipient and does not collide with the
\* account the first one made.
C31_ConsecutiveCreates ==
    [][ConsecutiveCreate =>
          LET sender == last.m.sender
              n == GetNonce(last.pre, sender)
          IN  /\ last.recipient = CreateAddress(sender, n)
              /\ GetNonce(ibs, sender) = n + 1
              /\ DispatchedRecipient = CreateAddress(sender, n + 1)
              /\ DispatchedRecipient # last.recipient
              /\ (Len(stack') = Len(stack)
                  /\ result'.err = ErrContractAddressCollision) =>
                   Occupied(last.pre, DispatchedRecipient)]_vars

\* two Creates of the same sender have succeeded, one after the other
C31_Witness ==
    /\ CalledWith({"Create"})
    /\ result.err = ErrNil
    /\ GetNonce(last.pre, last.m.sender) = 2
    /\ last.recipient = CreateAddress(SelfAddr, 2)
    /\ Exist(ibs, CreateAddress(SelfAddr, 1))
    /\ Exist(ibs, CreateAddress(SelfAddr, 2))
    /\ ~Exist(last.pre, CreateAddress(SelfAddr, 2))
    /\ GetNonce(ibs, SelfAddr) = 3

\* a message call that handleCalls has finished on the path of a precompiled
\* contract or of an account without code
NativeOrEmptyCall ==
    /\ last.op = "Call"
    /\ last.path = "calls"
    /\ last.ran \in {"precompile", "empty"}

\* the snapshots acquired, and the reverts made, since the dispatch began
AcquiredSince == journal.acquired - last.preJournal.acquired
RevertedSince == SubSeq(journal.reverted, Len(last.preJournal.reverted) + 1,
                        Len(journal.reverted))

C32_WitnessEmptyCode ==
    /\ NativeOrEmptyCall
    /\ last.ran = "empty"
    /\ host.config.RestoreState
    /\ AcquiredSince = 1
    /\ Len(RevertedSince) = 1

\* a finished message call of handleCalls whose code address held, before
\* the call, an existing account without code that is no precompiled
\* contract, and whose recipient existed
EmptyCodeCall ==
    /\ last.op = "Call"
    /\ last.path = "calls"
    /\ ~IsPrecompile(last.m.codeAddress)
    /\ Exist(last.pre, last.m.codeAddress)
    /\ Exist(last.pre, last.m.recipient)
    /\ GetCode(last.pre, last.m.codeAddress).len = 0

\* success with nothing run: empty output, the gas supplied, no refund
ReturnsUntouched ==
    /\ result.err = ErrNil
    /\ result.output = EmptyBytes
    /\ result.gasLeft = last.m.gas
    /\ result.gasRefund = 0
    /\ last.ran # "interp"

\* the state before the call with the value moved from sender to recipient
ValueMoved ==
    AddBalance(SubBalance(last.pre, last.m.sender, last.m.value),
               last.m.recipient, last.m.value)

Unpayable ==
    /\ last.m.kind \in {"Call", "CallCode"}
    /\ last.m.value > 0
    /\ GetBalance(last.pre, last.m.sender) < last.m.value

C33_WitnessCallCode ==
    /\ EmptyCodeCall
    /\ last.m.kind = "CallCode"
    /\ ReturnsUntouched
    /\ AccountState(ibs) = AccountState(last.pre)

\* a finished message call that got as far as a snapshot, on a host made
\* with RestoreState
RolledBackCall(kinds) ==
    /\ CalledWith(kinds)
    /\ host.config.RestoreState
    /\ AcquiredSince >= 1

\* C34: under RestoreState every message call that reached its snapshot
\* leaves balances, nonces, code, storage and account existence as they were
\* before the call, succeed or fail, and still returns the output and the
\* error of what ran.
C34_ForcedRollback ==
    RolledBackCall(MessageCallKinds) =>
       /\ AccountState(ibs) = AccountState(last.pre)
       /\ last.ran # "none" =>
            (result.output = last.out.output /\ result.err = last.out.err)

\* the same for the kinds Call hands to handleCalls, where it holds
C34_ForcedRollbackOfHandleCalls ==
    RolledBackCall({"Call", "CallCode", "DelegateCall"}) =>
       /\ AccountState(ibs) = AccountState(last.pre)
       /\ last.ran # "none" =>
            (result.output = last.out.output /\ result.err = last.out.err)

\* a Call that ran code successfully, paid its value and changed storage has
\* been rolled back
C34_Witness ==
    /\ RolledBackCall({"Call"})
    /\ last.ran = "interp"
    /\ last.m.value = 1
    /\ result.err = ErrNil
    /\ result.output # EmptyBytes
    /\ AccountState(ibs) = AccountState(last.pre)
    /\ Len(RevertedSince) >= 1

\* a StaticCall that succeeded under RestoreState has left its traces
C34_WitnessStaticCall ==
    /\ RolledBackCall({"StaticCall"})
    /\ result.err = ErrNil
    /\ AccountState(ibs) # AccountState(last.pre)

\* C35: a creation whose init code ran and that ends with an error other than
\* ErrExecutionReverted returns gasLeft 0; one that ends with
\* ErrExecutionReverted returns the gas the interpreter handed back.
C35_FaultedCreateConsumesAllGas ==
    (CalledWith({"Create", "Create2"}) /\ last.ran = "interp") =>
       /\ result.err \notin {ErrNil, ErrExecutionReverted} => result.gasLeft = 0
       /\ result.err = ErrExecutionReverted => result.gasLeft = last.out.gasLeft

\* the part of C35 that holds: a reverted creation returns the interpreter's gas
C35_RevertedCreateKeepsGas ==
    (CalledWith({"Create", "Create2"}) /\ last.ran = "interp"
     /\ result.err = ErrExecutionReverted) => result.gasLeft = last.out.gasLeft

\* a creation rejected for the size of its code has returned all the gas the
\* init code left
C35_WitnessGasKept ==
    /\ CalledWith({"Create"})
    /\ last.ran = "interp"
    /\ last.out.err = ErrNil
    /\ result.err = ErrMaxCodeSizeExceeded
    /\ result.gasLeft = last.m.gas

\* the frames the interpreter runs for message calls
MessageCallFrames ==
    {i \in 2 .. Len(stack) : stack[i].m.kind \in MessageCallKinds}

\* C36: the kind handed to the interpreter for a message call is the kind of
\* the message dispatched.
C36_KindHandedOn ==
    \A i \in MessageCallFrames : stack[i].execKind = stack[i].m.kind

\* the part of C36 that holds for handleCalls: a message of kind Call is run
\* as a Call, with the code of its code address
C36_CallHandedOn ==
    \A i \in MessageCallFrames :
       (stack[i].path = "calls" /\ stack[i].m.kind = "Call") =>
          /\ stack[i].execKind = "Call"
          /\ stack[i].code = GetCode(stack[i].pre, stack[i].m.codeAddress)

\* the interpreter runs a DelegateCall it was told is a Call
C36_WitnessRewritten ==
    \E i \in MessageCallFrames :
       /\ stack[i].path = "calls"
       /\ stack[i].m.kind = "DelegateCall"
       /\ stack[i].execKind = "Call"

\* C37: GetTxContext returns for every block context, and reports an absent
\* base fee, blob base fee or prevRandao as zero.
C37_TxContextForEveryBlock ==
    last.op = "GetTxContext" =>
       /\ ~last.panic
       /\ last.ret.BaseFee = host.blockCtx.BaseFee.value
       /\ last.ret.BlobBaseFee = host.blockCtx.BlobBaseFee.value
       /\ last.ret.PrevRandao = host.blockCtx.PrevRanDao.value

\* the part of C37 that holds: in a block with a base fee GetTxContext
\* returns, and reports an absent blob base fee or prevRandao as zero
C37_TxContextWithBaseFee ==
    (last.op = "GetTxContext" /\ ~host.blockCtx.BaseFee.nil) =>
       /\ ~last.panic
       /\ last.ret.BaseFee = host.blockCtx.BaseFee.value
       /\ last.ret.BlobBaseFee = host.blockCtx.BlobBaseFee.value
       /\ last.ret.PrevRandao = host.blockCtx.PrevRanDao.value

\* GetTxContext was called in a block without a base fee, and the process
\* has ended
C37_WitnessPanic ==
    /\ TxContextPanicked
    /\ host.blockCtx.BaseFee.nil
    /\ ~host.rules.IsLondon

\* GetTxContext has returned zero for an absent blob base fee and prevRandao
C37_WitnessAbsentReportedZero ==
    /\ last.op = "GetTxContext"
    /\ ~last.panic
    /\ host.blockCtx.BlobBaseFee.nil
    /\ host.blockCtx.PrevRanDao.nil
    /\ last.ret.BlobBaseFee = 0
    /\ last.ret.PrevRandao = 0
    /\ last.ret.BaseFee = 1

\* processCommitmentFile has returned after an extraction that failed
FailedExtraction == consumer.pc = "returned" /\ extractor.err # ErrNil

\* C38: whenever extractKVPairFromCompressed fails, processCommitmentFile
\* returns the error and no totals, and the goroutine is not left waiting in
\* its send on the error channel.
C38_ExtractionErrorReturned ==
    /\ FailedExtraction => (consumer.ret = "nil" /\ consumer.err = extractor.err)
    /\ ~(consumer.pc = "returned" /\ extractor.pc = "sending")

\* the part of C38 that holds: an error the select receives is the error of
\* the extraction, and an extraction that succeeds returns the totals of all
\* the pairs sent
C38_ReceivedErrorReturned ==
    consumer.pc = "returned" =>
       /\ consumer.err \in {ErrNil, extractor.err}
       /\ extractor.err = ErrNil =>
            /\ consumer.ret = "totals"
            /\ consumer.totals.rootsCount + consumer.totals.branches
                 = Cardinality({i \in 1 .. Len(extractor.file.pairs) :
                                  extractor.file.pairs[i] # "short"})

\* processCommitmentFile has returned (totals, nil) for a file the
\* decompressor could not open, and the goroutine waits in its send for ever
C38_WitnessErrorLost ==
    /\ FailedExtraction
    /\ ~extractor.file.opens
    /\ consumer.ret = "totals"
    /\ consumer.err = ErrNil
    /\ extractor.pc = "sending"

\* the select came after the goroutine's send, and the error was returned
C38_WitnessErrorReturned ==
    /\ FailedExtraction
    /\ extractor.file.dangling
    /\ consumer.ret = "nil"
    /\ consumer.err = ErrInvalidPair
    /\ consumer.totals.branches = MaxPairs
    /\ extractor.pc = "done"
    /\ errch.closed

\* ProcessNewBlocks is inside Synchronize
Synchronizing == engine.pc \in {"select", "ready", "reached"}
\* ProcessNewBlocks has returned
Returned == engine.pc = "returned"
\* the requested block is above lastProcessedBlockNumber
Behind == bridge.lastProcessedBlockNumber < engine.blockNum

\* Synchronize returns nil only in a step that reads ready set, or
\* lastProcessedBlockNumber at the requested block or above
SynchronizeReturnsNilWhenSynced ==
    [][(Synchronizing /\ engine'.pc = "process") => (bridge.ready \/ ~Behind)]_vars

\* once Run has stopped with ready false, a Synchronize for a block above
\* lastProcessedBlockNumber ends only with the error of a context that is done
StoppedRunLeavesCancellation ==
    [][(Synchronizing /\ run.pc = "stopped" /\ ~bridge.ready /\ Behind
        /\ ~(engine'.pc \in {"select", "ready", "reached"})) =>
           (ctx.done /\ engine'.pc = "returned" /\ engine'.err = ErrCanceled)]_vars

C39_WitnessCancelled ==
    /\ Returned
    /\ engine.err = ErrCanceled
    /\ run.pc = "stopped"
    /\ run.err = ErrFetch
    /\ ~bridge.ready
    /\ Behind

\* ProcessNewBlocks need not return at all: with Run stopped, ready false and
\* no cancellation, Synchronize polls for ever
C39_ReturnsUnconditionally == Synchronizing ~> Returned

\* the goroutines inside a critical section of the store
InCriticalSection == {t \in Threads : threads[t].pc \in {"critical", "unlock"}}
\* the calls of BlockBuilt that have read their result
HaveRead ==
    {t \in Threads : threads[t].op = "BlockBuilt" /\ threads[t].pc \in {"unlock", "idle"}}
\* the block passed to the n-th AddBlockBuilt that completed; nil before any
CompletedBlock(n) == IF n = 0 THEN NilBlock ELSE history.completed[n]

\* C40: BlockBuilt returns nil when no AddBlockBuilt has completed before its
\* read, and otherwise the block passed to the last AddBlockBuilt that
\* completed before it: the one that was last when BlockBuilt was called, or
\* one that completed while BlockBuilt waited for the lock; it returns no
\* block that was never stored, and no two calls are in their critical
\* sections together.
C40_LatestBlockBuilt ==
    /\ \A t \in HaveRead :
          /\ threads[t].ret = CompletedBlock(threads[t].at)
          /\ threads[t].seen <= threads[t].at
          /\ threads[t].at <= Len(history.completed)
          /\ threads[t].ret \in {NilBlock} \cup
                {history.completed[i] : i \in 1 .. Len(history.completed)}
    /\ Cardinality(InCriticalSection) <= 1
    /\ store.lock # NoThread <=> InCriticalSection # {}
    /\ \A t \in InCriticalSection : store.lock = t

\* a BlockBuilt has returned the block of an AddBlockBuilt that completed
\* while it waited, after an earlier AddBlockBuilt with another block
C40_Witness ==
    \E t \in HaveRead :
       /\ threads[t].pc = "idle"
       /\ threads[t].seen = 1
       /\ threads[t].at = 2
       /\ history.completed = <<1, 2>>
       /\ threads[t].ret = 2

\* a BlockBuilt has returned nil while an AddBlockBuilt waited for the lock
C40_WitnessNil ==
    \E t \in HaveRead, u \in Threads :
       /\ threads[t].ret = NilBlock
       /\ threads[t].pc = "idle"
       /\ threads[u].op = "AddBlockBuilt"
       /\ threads[u].pc = "lock"
       /\ history.completed = <<>>

====
